---- MODULE Spec2Model ----
(***************************************************************************)
(* dagger: execution of a DAG of Tasks by a workflow manager.              *)
(*                                                                         *)
(* The model follows dagger/abstract/workflow_manager.py (AbstractManager) *)
(* and dagger/core/workflow_manager.py (WorkflowManager, the loky process  *)
(* backend), dagger/abstract/task.py, dagger/abstract/datum.py and         *)
(* dagger/abstract/helpers.py.                                             *)
(*                                                                         *)
(* Two kinds of object are kept apart, as they are in the program:         *)
(*  - the coordinator's own Task and Datum objects (state, dstate,         *)
(*    pointer, dhash, quickhash): only the coordinator process writes them;*)
(*  - the copy of a task that a worker process runs (wpc, outcome), whose  *)
(*    only channels back to the coordinator are the shared state cell      *)
(*    (rep, WorkflowManager.running_state_values) and the file system      *)
(*    (disk).                                                              *)
(*                                                                         *)
(* Tasks are numbered so that a dependency has a smaller number than the   *)
(* task that depends on it; the end task is the last one.  The depth-first *)
(* walks of the program visit dependencies before dependents, so visiting  *)
(* the reachable tasks by increasing number is one of their orders.        *)
(*                                                                         *)
(* Specifications:                                                         *)
(*  - Spec: WorkflowManager.run() with its workers and interruptions;      *)
(*  - SpecSetter: the state setters of Task and Datum, called directly;    *)
(*  - SpecWarm: run() after run() on a workflow that completed, with the   *)
(*    caller deleting output files and editing task bodies in between;     *)
(*  - SpecTask: Task.run() and Task.sync() called inline on the objects,   *)
(*    without a manager;                                                   *)
(*  - SpecCycle: the construction of a manager over any dependency         *)
(*    relation, cyclic ones included (validate_dag);                       *)
(*  - SpecAssess: initialize_workflow_state() on a workflow whose tasks    *)
(*    were run, unlinked and edited inline beforehand;                     *)
(*  - SpecDatum: the methods of one Datum (populate, verify_available,     *)
(*    clear, sync) with its file written and deleted in between;           *)
(*  - SpecList: the methods of a DatumList over several Datums;            *)
(*  - SpecLive: one run() to its end, with fairness on the coordinator and *)
(*    on every worker, for the progress properties.                        *)
(***************************************************************************)
EXTENDS Integers, Sequences, FiniteSets, TLC

\* ---------------------------------------------------------------- bounds
NTasks == 3
Budget == 2
MaxDemand == 2
MaxEdits == 1
MaxActive == 2
MaxVersion == 2
MaxChain == 3
MaxList == 2

Tasks == 0 .. (NTasks - 1)
EndTask == NTasks - 1
\* no entry in running_state_values
None == "None"
\* Python's None as a pointer, a quickhash or a file that does not exist;
\* the values task bodies compute are positive
Null == 0

\* ------------------------------------------------------------ enumerations
WAITING == "WAITING"
RUNNING == "RUNNING"
COMPLETE == "COMPLETE"
FAILED == "FAILED"
TaskState == {WAITING, RUNNING, COMPLETE, FAILED}

EMPTY == "EMPTY"
POPULATED == "POPULATED"
AVAILABLE == "AVAILABLE"
DatumState == {EMPTY, POPULATED, AVAILABLE}

VARIABLES
    deps,        \* Task.dependencies of every task
    demand,      \* Task.resources of every task
    kind,        \* variant of the output Datums: "memory" or "file"
    state,       \* Task._state of the coordinator's Task objects
    quickhash,   \* Task.quickhash, the stored fingerprint
    source,      \* what Task._quickhash() computes now (the body's source)
    dstate,      \* Datum._state of each task's output Datum (coordinator's)
    pointer,     \* Datum.pointer of each task's output Datum (coordinator's)
    dhash,       \* Datum.quickhash of each task's output Datum (coordinator's)
    disk,        \* content of the file an output FileDatum points to
    waiting,     \* AbstractManager.waiting
    ready,       \* AbstractManager.ready
    running,     \* AbstractManager.running
    complete,    \* AbstractManager.complete
    failed,      \* AbstractManager.failed
    resources,   \* WorkflowManager.resources, the available budget
    rep,         \* WorkflowManager.running_state_values
    subm,        \* keys of WorkflowManager.running_submissions
    pc,          \* position of the coordinator in run()
    chosen,      \* tasks _launch_ready_tasks still has to launch
    finished,    \* finished_tasks of the current loop iteration
    todo,        \* tasks _wrapup_finished_tasks still has to wrap up
    wpc,         \* position of the worker process running a task's copy
    outcome,     \* how the body of a task ended in the current run()
    launched,    \* tasks handed to _launch_task in the current run()
    lastSet,     \* the last assignment made through a state setter
    call,        \* the last call made on a Task object and how it ended
    seen,        \* the last state the coordinator read from a task's cell
    dlist,       \* a DatumList over the first Datums: built, state, quickhash
    demoted      \* tasks a sync() moved from COMPLETE to WAITING on a changed
                 \* quickhash and whose run() has not succeeded since

coord == <<waiting, ready, running, complete, failed>>
graph == <<deps, demand, kind>>
datums == <<dstate, pointer, dhash>>
hashes == <<quickhash, source>>
loopv == <<chosen, finished, todo>>
vars == <<deps, demand, kind, state, quickhash, source, dstate, pointer,
          dhash, disk, waiting, ready, running, complete, failed, resources,
          rep, subm, pc, chosen, finished, todo, wpc, outcome, launched,
          lastSet, call, seen, dlist, demoted>>

\* ----------------------------------------------------------- small helpers
Range(s) == {s[i] : i \in DOMAIN s}

Remove(s, x) == SelectSeq(s, LAMBDA y : y # x)

RECURSIVE Sum(_, _)
Sum(f, S) == IF S = {} THEN 0
             ELSE LET x == CHOOSE y \in S : TRUE
                  IN f[x] + Sum(f, S \ {x})

Perms(S) == {s \in [1 .. Cardinality(S) -> S] : Range(s) = S}

\* tasks the walks from the end task visit
RECURSIVE Ancestors(_, _)
Ancestors(d, t) == d[t] \cup UNION {Ancestors(d, p) : p \in d[t]}

Reach == {EndTask} \cup Ancestors(deps, EndTask)

\* ------------------------------------------------------- state setters
\* a table that also lets a FAILED task be marked COMPLETE
TaskTransitionsLoose ==
    [s \in TaskState |->
        CASE s = WAITING -> {RUNNING, COMPLETE}
          [] s = RUNNING -> {COMPLETE, FAILED, WAITING}
          [] s = COMPLETE -> {WAITING}
          [] s = FAILED -> {WAITING, COMPLETE}]

TaskTransitions ==
    [s \in TaskState |->
        CASE s = WAITING -> {RUNNING, COMPLETE}
          [] s = RUNNING -> {COMPLETE, FAILED, WAITING}
          [] s = COMPLETE -> {WAITING}
          [] s = FAILED -> {WAITING}]

\* AbstractTask.state setter: ok = FALSE stands for the ValueError
TaskSetter(cur, new) ==
    IF new # cur /\ new \notin TaskTransitions[cur]
    THEN [ok |-> FALSE, state |-> cur]
    ELSE [ok |-> TRUE, state |-> new]

\* a table that lets an EMPTY Datum be marked AVAILABLE
DatumTransitionsLoose ==
    [s \in DatumState |->
        CASE s = EMPTY -> {POPULATED, AVAILABLE}
          [] s = POPULATED -> {EMPTY, AVAILABLE}
          [] s = AVAILABLE -> {EMPTY, POPULATED}]

DatumTransitions ==
    [s \in DatumState |->
        CASE s = EMPTY -> {POPULATED}
          [] s = POPULATED -> {EMPTY, AVAILABLE}
          [] s = AVAILABLE -> {EMPTY, POPULATED}]

\* AbstractDatum.state setter
DatumSetter(cur, new) ==
    IF new # cur /\ new \notin DatumTransitions[cur]
    THEN [ok |-> FALSE, state |-> cur]
    ELSE [ok |-> TRUE, state |-> new]

\* ------------------------------------------------------- resource helpers
\* the budget WorkflowManager is constructed with: "cpu" and "mem" are
\* limited, any other key ("gpu") is not
InitialBudget == [k \in {"cpu", "mem"} |-> Budget]

\* Task.resources: a small task that demands one cpu, and a large one that
\* demands MaxDemand cpus and a gpu; neither names "mem"
EmptyDemand == [k \in {} |-> 0]
Demands == {[k \in {"cpu"} |-> 1],
            [k \in {"cpu", "gpu"} |-> IF k = "cpu" THEN MaxDemand ELSE 1]}

resources_available(res, query) ==
    \A qk \in DOMAIN query : qk \in DOMAIN res => ~(res[qk] < query[qk])

decrement_resources(res, dec) ==
    [k \in DOMAIN res |-> IF k \in DOMAIN dec THEN res[k] - dec[k] ELSE res[k]]

increment_resources(res, inc) ==
    [k \in DOMAIN res |-> IF k \in DOMAIN inc THEN res[k] + inc[k] ELSE res[k]]

\* ------------------------------------------------- Datum variant hooks
\* the path an output FileDatum is constructed with
Path == -1

\* MemoryDatum: any value is well formed; FileDatum: the pointer is a path
validate_format_logic(k, ptr) == k = "memory" \/ ptr = Path

\* MemoryDatum: the pointer is the data; FileDatum: the path exists
verify_available_logic(k, ptr, file) == k = "memory" \/ file # Null

\* the fingerprint _quickhash() computes: from the string form of the value
\* of a MemoryDatum (an integer also for the value None), from the file
\* behind a FileDatum
DatumFingerprint(k, ptr, file) == IF k = "memory" THEN ptr + 1 ELSE file

\* AbstractDatum.verify_available(update=True)
verify_available(k, ds, ptr, dh, file) ==
    IF ds # EMPTY /\ verify_available_logic(k, ptr, file)
    THEN [ret |-> TRUE,
          dstate |-> DatumSetter(ds, AVAILABLE).state,
          dhash |-> DatumFingerprint(k, ptr, file)]
    ELSE [ret |-> FALSE, dstate |-> ds, dhash |-> dh]

\* ------------------------------------------- initial assessment of the DAG
InSeq(x, s) == x \in Range(s)

\* AbstractTask.update_state on one of the coordinator's Task objects (its
\* communicator is the do-nothing DefaultCommunicator)
update_state(acc, t, new) ==
    LET r == TaskSetter(acc.state[t], new)
    IN [acc EXCEPT !.state[t] = r.state, !.ok = acc.ok /\ r.ok]

\* Task.verify_complete(): deps COMPLETE, own quickhash unchanged, every
\* input fingerprint unchanged, every output AVAILABLE.  The inputs of a
\* task are the outputs of its dependencies.  A verified task is COMPLETE.
verify_complete(acc, t) ==
    LET out == verify_available(kind, acc.dstate[t], pointer[t],
                                acc.dhash[t], disk[t])
        hashOk == acc.quickhash[t] = source[t]
        depsOk == \A d \in deps[t] : acc.state[d] = COMPLETE
        insOk == \A d \in deps[t] :
                    acc.dhash[d] = DatumFingerprint(kind, pointer[d], disk[d])
        ret == depsOk /\ hashOk /\ insOk /\ out.ret
        a1 == [acc EXCEPT !.dstate[t] = out.dstate, !.dhash[t] = out.dhash,
                          !.quickhash[t] = source[t]]
    IN [ret |-> ret,
        acc |-> IF ret THEN update_state(a1, t, COMPLETE) ELSE a1]

\* InitializeTask that trusts the state flag, as with verify_tasks=False
InitializeTaskShallow(acc, t, verify_tasks) ==
    IF \E d \in deps[t] :
          d \in acc.waiting \/ d \in acc.failed \/ InSeq(d, acc.ready)
    THEN [update_state(acc, t, WAITING) EXCEPT !.waiting = @ \cup {t}]
    ELSE IF acc.state[t] = FAILED
    THEN [acc EXCEPT !.failed = @ \cup {t}]
    ELSE IF acc.state[t] = COMPLETE
    THEN [acc EXCEPT !.complete = @ \cup {t}]
    ELSE [update_state(acc, t, WAITING) EXCEPT !.ready = Append(@, t)]

\* InitializeTask without the test `d in self.ready`
InitializeTaskIgnoringReady(acc, t, verify_tasks) ==
    IF \E d \in deps[t] : d \in acc.waiting \/ d \in acc.failed
    THEN [update_state(acc, t, WAITING) EXCEPT !.waiting = @ \cup {t}]
    ELSE IF acc.state[t] = FAILED
    THEN [acc EXCEPT !.failed = @ \cup {t}]
    ELSE LET v == verify_complete(acc, t)
         IN IF v.ret
            THEN [v.acc EXCEPT !.complete = @ \cup {t}]
            ELSE [update_state(v.acc, t, WAITING)
                     EXCEPT !.ready = Append(@, t)]

\* InitializeTask that looks at the FAILED flag before the dependencies
InitializeTaskFailedFirst(acc, t, verify_tasks) ==
    IF acc.state[t] = FAILED
    THEN [acc EXCEPT !.failed = @ \cup {t}]
    ELSE IF \E d \in deps[t] :
               d \in acc.waiting \/ d \in acc.failed \/ InSeq(d, acc.ready)
    THEN [update_state(acc, t, WAITING) EXCEPT !.waiting = @ \cup {t}]
    ELSE IF verify_tasks
    THEN LET v == verify_complete(acc, t)
         IN IF v.ret
            THEN [v.acc EXCEPT !.complete = @ \cup {t}]
            ELSE [update_state(v.acc, t, WAITING)
                     EXCEPT !.ready = Append(@, t)]
    ELSE IF acc.state[t] = COMPLETE
    THEN [acc EXCEPT !.complete = @ \cup {t}]
    ELSE [update_state(acc, t, WAITING) EXCEPT !.ready = Append(@, t)]

\* the body of AbstractManager._rec_initialize_state for one task, once its
\* dependencies have been visited
InitializeTask(acc, t, verify_tasks) ==
    IF \E d \in deps[t] :
          d \in acc.waiting \/ d \in acc.failed \/ InSeq(d, acc.ready)
    THEN [update_state(acc, t, WAITING) EXCEPT !.waiting = @ \cup {t}]
    ELSE IF acc.state[t] = FAILED
    THEN [acc EXCEPT !.failed = @ \cup {t}]
    ELSE IF verify_tasks
    THEN LET v == verify_complete(acc, t)
         IN IF v.ret
            THEN [v.acc EXCEPT !.complete = @ \cup {t}]
            ELSE [update_state(v.acc, t, WAITING)
                     EXCEPT !.ready = Append(@, t)]
    ELSE IF acc.state[t] = COMPLETE
    THEN [acc EXCEPT !.complete = @ \cup {t}]
    ELSE [update_state(acc, t, WAITING) EXCEPT !.ready = Append(@, t)]

\* AbstractManager._rec_initialize_state from the end task: every reachable
\* task once, dependencies first
RECURSIVE rec_initialize_state(_, _, _)
rec_initialize_state(acc, t, verify_tasks) ==
    IF t > EndTask THEN acc
    ELSE rec_initialize_state(
            IF t \in Reach THEN InitializeTask(acc, t, verify_tasks) ELSE acc,
            t + 1, verify_tasks)

\* AbstractManager.initialize_workflow_state
initialize_workflow_state(verify_tasks) ==
    rec_initialize_state(
        [waiting |-> {}, ready |-> <<>>, complete |-> {}, failed |-> {},
         state |-> state, dstate |-> dstate, dhash |-> dhash,
         quickhash |-> quickhash, ok |-> TRUE],
        0, verify_tasks)

\* --------------------------------------------------- scheduling policy
\* WorkflowManager._choose_tasks: greedy, in the order of the ready list
\* choose_from that admits against the budget it started with
choose_from_undeducted(rdy, res) ==
    SelectSeq(rdy, LAMBDA rt : resources_available(res, demand[rt]))

\* choose_from that ends the pass at the first task that does not fit
RECURSIVE choose_from_until_misfit(_, _)
choose_from_until_misfit(rdy, res) ==
    IF rdy = <<>> THEN <<>>
    ELSE LET rt == Head(rdy)
         IN IF resources_available(res, demand[rt])
            THEN <<rt>> \o choose_from_until_misfit(
                              Tail(rdy), decrement_resources(res, demand[rt]))
            ELSE <<>>

RECURSIVE choose_from(_, _)
choose_from(rdy, res) ==
    IF rdy = <<>> THEN <<>>
    ELSE LET rt == Head(rdy)
         IN IF resources_available(res, demand[rt])
            THEN <<rt>> \o choose_from(Tail(rdy),
                                       decrement_resources(res, demand[rt]))
            ELSE choose_from(Tail(rdy), res)

choose_tasks(ready_tasks) == choose_from(ready_tasks, resources)

\* AbstractManager._get_finished_tasks with
\* WorkflowManager._get_running_task_state
get_finished_tasks(running_tasks) ==
    SelectSeq(running_tasks, LAMBDA t : rep[t] \in {COMPLETE, FAILED})

\* ------------------------------------------------------------ task bodies
\* what a worker's copy of task t finds in its input Datums: the Datums are
\* pickled with the copy, so a MemoryDatum carries the pointer the
\* coordinator's object holds, and a FileDatum is read from the file system
Seen(p) == IF kind = "memory" THEN pointer[p] ELSE disk[p]

\* the body x -> x + 1 of the tests, over all the inputs of the task
Body(t) == 1 + Sum([p \in Tasks |-> Seen(p)], deps[t])

\* the value the body of t computes when its parents' outputs are right
RECURSIVE Expected(_)
Expected(t) == 1 + Sum([p \in Tasks |-> IF p \in deps[t] THEN Expected(p) ELSE 0],
                       deps[t])

\* ------------------------------------------------------------------- Init
NoSet == [obj |-> "none", id |-> 0, from |-> "none", to |-> "none",
          ok |-> TRUE]

\* a DatumList as DatumList(datum_type) constructs it: no datum_list yet,
\* EMPTY, quickhash None (written as the empty tuple)
NoHash == <<>>
NoList == [built |-> FALSE, state |-> EMPTY, quickhash |-> NoHash]

\* no method of a Task has been called yet
NoCall == [op |-> "none", id |-> 0, raised |-> "none", body |-> "none",
           cleanups |-> 0, arg |-> 0]

\* construction of the tasks (AbstractTask.__init__, state WAITING, outputs
\* EMPTY MemoryDatums or POPULATED FileDatums whose file does not exist yet)
\* and of the manager (AbstractManager.__init__, WorkflowManager.__init__)
Init ==
    /\ deps \in [Tasks -> SUBSET Tasks]
    /\ \A t \in Tasks : \A d \in deps[t] : d < t
    /\ demand \in [Tasks -> Demands \cup {EmptyDemand}]
    \* a task the end task does not depend on is not part of the workflow
    /\ \A t \in Tasks : demand[t] = EmptyDemand <=> t \notin Reach
    /\ kind \in {"memory", "file"}
    /\ state = [t \in Tasks |-> WAITING]
    /\ quickhash = [t \in Tasks |-> 0]
    /\ source = [t \in Tasks |-> 0]
    /\ dstate = [t \in Tasks |-> IF kind = "memory" THEN EMPTY ELSE POPULATED]
    /\ pointer = [t \in Tasks |-> IF kind = "memory" THEN Null ELSE Path]
    /\ dhash = [t \in Tasks |-> Null]
    /\ disk = [t \in Tasks |-> Null]
    /\ waiting = {} /\ ready = <<>> /\ running = <<>>
    /\ complete = {} /\ failed = {}
    /\ resources = InitialBudget
    /\ rep = [t \in Tasks |-> None]
    /\ subm = {}
    /\ pc = "idle"
    /\ chosen = <<>> /\ finished = <<>> /\ todo = <<>>
    /\ wpc = [t \in Tasks |-> "none"]
    /\ outcome = [t \in Tasks |-> "none"]
    /\ launched = {}
    /\ lastSet = NoSet
    /\ call = NoCall
    /\ seen = [t \in Tasks |-> None]
    /\ dlist = NoList
    /\ demoted = {}

\* ----------------------------------------------------------- coordinator
\* no submission of an earlier run() is still executing
Drained == \A t \in Tasks : wpc[t] = "none"

\* run(): initialize_workflow_state(), then _launch_ready_tasks starts by
\* choosing among the ready tasks.  The caller calls run() on a fresh
\* manager, or again after run() returned or raised.
RunStart ==
    /\ pc \in {"idle", "done", "raised", "interrupted"}
    /\ Drained
    /\ LET a == initialize_workflow_state(TRUE)
       IN /\ waiting' = a.waiting
          /\ ready' = a.ready
          /\ running' = <<>>
          /\ complete' = a.complete
          /\ failed' = a.failed
          /\ state' = a.state
          /\ dstate' = a.dstate
          /\ dhash' = a.dhash
          /\ quickhash' = a.quickhash
          /\ pc' = IF a.ok THEN "choose" ELSE "raised"
    /\ outcome' = [t \in Tasks |-> "none"]
    /\ launched' = {}
    /\ chosen' = <<>> /\ finished' = <<>> /\ todo' = <<>>
    /\ seen' = [t \in Tasks |-> None]
    /\ UNCHANGED <<graph, source, pointer, disk, resources, subm, wpc, lastSet,
                   dlist, call, demoted>>
    \* an entry of running_state_values left by an earlier run() is never
    \* read: _launch_task replaces it before the task is polled
    /\ rep' = [t \in Tasks |-> None]

\* _launch_ready_tasks: chosen_tasks = self._choose_tasks(ready_tasks)
Choose ==
    /\ pc = "choose"
    /\ chosen' = choose_tasks(ready)
    /\ pc' = "launch"
    /\ UNCHANGED <<graph, state, hashes, datums, disk, coord, resources, rep,
                   subm, finished, todo, wpc, outcome, launched, lastSet, call,
                   seen, dlist, demoted>>

\* one turn of the loop of _launch_ready_tasks: ready.remove(task),
\* WorkflowManager._launch_task(task), running.append(task)
LaunchTask ==
    /\ pc = "launch"
    /\ chosen # <<>>
    /\ LET task == Head(chosen)
       IN /\ ready' = Remove(ready, task)
          /\ rep' = [rep EXCEPT ![task] = state[task]]
          /\ resources' = decrement_resources(resources, demand[task])
          /\ subm' = subm \cup {task}
          /\ wpc' = [wpc EXCEPT ![task] = "queued"]
          /\ running' = Append(running, task)
          /\ launched' = launched \cup {task}
          /\ outcome' = [outcome EXCEPT ![task] = "none"]
          /\ seen' = [seen EXCEPT ![task] = None]
    /\ chosen' = Tail(chosen)
    /\ UNCHANGED <<graph, state, hashes, datums, disk, waiting, complete,
                   failed, pc, finished, todo, lastSet, dlist, call, demoted>>

\* _launch_ready_tasks is through: back to `while self.running`
LaunchDone ==
    /\ pc = "launch"
    /\ chosen = <<>>
    /\ pc' = "loop"
    /\ UNCHANGED <<graph, state, hashes, datums, disk, coord, resources, rep,
                   subm, loopv, wpc, outcome, launched, lastSet, call, seen,
                   dlist, demoted>>

\* `while self.running` is false: run() returns
Return ==
    /\ pc = "loop"
    /\ running = <<>>
    /\ pc' = "done"
    /\ UNCHANGED <<graph, state, hashes, datums, disk, coord, resources, rep,
                   subm, loopv, wpc, outcome, launched, lastSet, call, seen,
                   dlist, demoted>>

\* an iteration of the loop: _get_finished_tasks reads the cell of every
\* running task; with finished tasks the iteration goes on to wrap them up,
\* without any it ends
Poll ==
    /\ pc = "loop"
    /\ running # <<>>
    /\ seen' = [t \in Tasks |-> IF InSeq(t, running) THEN rep[t] ELSE seen[t]]
    /\ finished' = get_finished_tasks(running)
    /\ todo' = get_finished_tasks(running)
    /\ pc' = IF get_finished_tasks(running) # <<>> THEN "wrapup" ELSE "loop"
    /\ UNCHANGED <<graph, state, hashes, datums, disk, coord, resources, rep,
                   subm, chosen, wpc, outcome, launched, lastSet, dlist, call,
                   demoted>>

\* one turn of the loop of _wrapup_finished_tasks, with
\* WorkflowManager._wrapup_task
WrapupTask ==
    /\ pc = "wrapup"
    /\ todo # <<>>
    /\ LET t == Head(todo)
           t_s == rep[t]
           r == TaskSetter(state[t], t_s)
       IN IF ~r.ok
          THEN \* t.update_state(t_s) raises ValueError out of run()
               /\ pc' = "raised"
               /\ UNCHANGED <<state, coord, resources, rep, subm, todo, wpc>>
          ELSE IF t_s \notin {COMPLETE, FAILED}
          THEN \* neither COMPLETE nor FAILED: back to WAITING, ValueError
               /\ state' = [state EXCEPT ![t] = TaskSetter(r.state, WAITING).state]
               /\ waiting' = waiting \cup {t}
               /\ pc' = "raised"
               /\ UNCHANGED <<ready, running, complete, failed, resources,
                              rep, subm, todo, wpc>>
          ELSE /\ state' = [state EXCEPT ![t] = r.state]
               /\ complete' = IF t_s = COMPLETE THEN complete \cup {t}
                              ELSE complete
               /\ failed' = IF t_s = FAILED THEN failed \cup {t} ELSE failed
               /\ rep' = [rep EXCEPT ![t] = None]
               /\ subm' = subm \ {t}
               /\ resources' = increment_resources(resources, demand[t])
               /\ running' = Remove(running, t)
               /\ wpc' = [wpc EXCEPT ![t] = "none"]
               /\ todo' = Tail(todo)
               /\ pc' = "wrapup"
               /\ UNCHANGED <<waiting, ready>>
    \* t_s = self._get_running_task_state(t)
    /\ seen' = [seen EXCEPT ![Head(todo)] = rep[Head(todo)]]
    /\ UNCHANGED <<graph, hashes, datums, disk, chosen, finished, outcome,
                   launched, lastSet, dlist, call, demoted>>

\* an adjacency list in which a task is also listed among its own children
adj_list_with_self(ft) == {c \in Reach : ft \in deps[c]} \cup {ft}

\* helpers.construct_adj_list: the children of a task among the tasks the
\* walk from the end task visits
adj_list(ft) == {c \in Reach : ft \in deps[c]}

\* the loop of _update_ready_tasks over the children, in the order `order`:
\* ready.append(c) then waiting.remove(c), which raises KeyError when c is
\* not waiting
\* promote that leaves the promoted children in waiting
promote_keeping_waiting(order, rdy, wtg) ==
    [ready |-> rdy \o SelectSeq(order,
                        LAMBDA c : \A p \in deps[c] : p \in complete),
     waiting |-> wtg, ok |-> TRUE]

RECURSIVE promote(_, _, _)
promote(order, rdy, wtg) ==
    IF order = <<>> THEN [ready |-> rdy, waiting |-> wtg, ok |-> TRUE]
    ELSE LET c == Head(order)
         IN IF \A p \in deps[c] : p \in complete
            THEN IF c \in wtg
                 THEN promote(Tail(order), Append(rdy, c), wtg \ {c})
                 ELSE [ready |-> Append(rdy, c), waiting |-> wtg, ok |-> FALSE]
            ELSE promote(Tail(order), rdy, wtg)

\* _update_ready_tasks(finished_tasks); the children are iterated as a set,
\* in any order
UpdateReadyTasks ==
    /\ pc = "wrapup"
    /\ todo = <<>>
    /\ LET children == UNION {adj_list(ft) : ft \in Range(finished)}
       IN \E order \in Perms(children) :
            LET r == promote(order, ready, waiting)
            IN /\ ready' = r.ready
               /\ waiting' = r.waiting
               /\ pc' = IF r.ok THEN "choose" ELSE "raised"
    /\ UNCHANGED <<graph, state, hashes, datums, disk, running, complete,
                   failed, resources, rep, subm, loopv, wpc, outcome, launched,
                   lastSet, call, seen, dlist, demoted>>

\* the loop of WorkflowManager._interrupt over self.running:
\* update_state(WAITING), waiting.add, increment_resources
RECURSIVE interrupt_running(_, _)
interrupt_running(rs, acc) ==
    IF rs = <<>> THEN acc
    ELSE LET task == Head(rs)
             r == TaskSetter(acc.state[task], WAITING)
         IN IF ~r.ok THEN [acc EXCEPT !.ok = FALSE]
            ELSE interrupt_running(Tail(rs),
                    [acc EXCEPT !.state[task] = r.state,
                                !.waiting = @ \cup {task},
                                !.resources =
                                    increment_resources(@, demand[task])])

\* KeyboardInterrupt in run(): WorkflowManager._interrupt(), then the
\* interruption is raised again.  The executor kills its workers; the
\* assignment to running_task_states leaves running_state_values alone.
Interrupt ==
    /\ pc \in {"choose", "launch", "loop", "wrapup"}
    /\ LET a == interrupt_running(running,
                    [state |-> state, waiting |-> waiting,
                     resources |-> resources, ok |-> TRUE])
       IN /\ state' = a.state
          /\ waiting' = a.waiting
          /\ resources' = a.resources
          /\ running' = IF a.ok THEN <<>> ELSE running
          /\ pc' = IF a.ok THEN "interrupted" ELSE "raised"
    /\ subm' = {}
    /\ wpc' = [t \in Tasks |-> "none"]
    /\ chosen' = <<>> /\ finished' = <<>> /\ todo' = <<>>
    /\ seen' = [t \in Tasks |-> None]
    /\ UNCHANGED <<graph, hashes, datums, disk, ready, complete, failed, rep,
                   outcome, launched, lastSet, dlist, call, demoted>>

\* ---------------------------------------------------------------- workers
\* A worker runs run_task() on the copy made by _launch_task: the copy has
\* no dependencies and a ProcessCommunicator, so every update_state of the
\* copy writes the shared cell rep[t].

\* AbstractTask.run on the copy: is_ready() holds, update_state(RUNNING)
WorkerStart(t) ==
    /\ wpc[t] = "queued"
    /\ TaskSetter(rep[t], RUNNING).ok
    /\ rep' = [rep EXCEPT ![t] = RUNNING]
    /\ wpc' = [wpc EXCEPT ![t] = "body"]
    /\ UNCHANGED <<graph, state, hashes, datums, disk, coord, resources, subm,
                   pc, loopv, outcome, launched, lastSet, call, seen, dlist,
                   demoted>>

\* _collect_inputs and _run_logic succeed: the body computes its value from
\* inputs that are there, and populates its output
WorkerWrite(t) ==
    /\ wpc[t] = "body"
    /\ \A p \in deps[t] : Seen(p) # Null
    /\ disk' = IF kind = "file" THEN [disk EXCEPT ![t] = Body(t)] ELSE disk
    /\ wpc' = [wpc EXCEPT ![t] = "wrote"]
    /\ UNCHANGED <<graph, state, hashes, datums, coord, resources, rep, subm,
                   pc, loopv, outcome, launched, lastSet, call, seen, dlist,
                   demoted>>

\* _verify_outputs holds on the copy: update_state(COMPLETE)
WorkerSucceed(t) ==
    /\ wpc[t] = "wrote"
    /\ verify_available_logic(kind, Path, disk[t])
    /\ rep' = [rep EXCEPT ![t] = TaskSetter(rep[t], COMPLETE).state]
    /\ wpc' = [wpc EXCEPT ![t] = "none"]
    /\ outcome' = [outcome EXCEPT ![t] = "ok"]
    /\ UNCHANGED <<graph, state, hashes, datums, disk, coord, resources, subm,
                   pc, loopv, launched, lastSet, call, seen, dlist, demoted>>

\* a run() that fails before it has marked the task RUNNING, and reports
\* FAILED without going through the state setter
WorkerFailBeforeStart(t) ==
    /\ wpc[t] \in {"queued", "body", "wrote"}
    /\ rep' = [rep EXCEPT ![t] = FAILED]
    /\ wpc' = [wpc EXCEPT ![t] = "none"]
    /\ outcome' = [outcome EXCEPT ![t] = "error"]
    /\ \E clears \in BOOLEAN :
          disk' = IF clears /\ kind = "file" THEN [disk EXCEPT ![t] = Null]
                  ELSE disk
    /\ UNCHANGED <<graph, state, hashes, datums, coord, resources, subm, pc,
                   loopv, launched, lastSet, call, seen, dlist, demoted>>

\* an Exception in the try block of run(): fail() is update_state(FAILED)
\* and _fail_cleanup(), which clears the outputs (FunctionTask) or does
\* nothing (ScriptTask); the exception ends run_task()
WorkerFail(t) ==
    /\ wpc[t] \in {"body", "wrote"}
    /\ rep' = [rep EXCEPT ![t] = TaskSetter(rep[t], FAILED).state]
    /\ wpc' = [wpc EXCEPT ![t] = "none"]
    /\ outcome' = [outcome EXCEPT ![t] = "error"]
    /\ \E clears \in BOOLEAN :
          disk' = IF clears /\ kind = "file" THEN [disk EXCEPT ![t] = Null]
                  ELSE disk
    /\ UNCHANGED <<graph, state, hashes, datums, coord, resources, subm, pc,
                   loopv, launched, lastSet, call, seen, dlist, demoted>>

\* a KeyboardInterrupt in the try block of run(): interrupt() is
\* update_state(WAITING) and _interrupt_cleanup(), which removes no file
WorkerInterrupted(t) ==
    /\ wpc[t] \in {"body", "wrote"}
    /\ rep' = [rep EXCEPT ![t] = TaskSetter(rep[t], WAITING).state]
    /\ wpc' = [wpc EXCEPT ![t] = "none"]
    /\ outcome' = [outcome EXCEPT ![t] = "interrupt"]
    /\ UNCHANGED <<graph, state, hashes, datums, disk, coord, resources, subm,
                   pc, loopv, launched, lastSet, call, seen, dlist, demoted>>

\* ------------------------------------------------------------ the caller
\* Between two calls of run() on a workflow that completed, the caller
\* deletes output files and edits task bodies.
Quiescent == pc = "done" /\ Drained /\ Reach \subseteq complete

\* the file behind the output FileDatum of t is deleted (Path.unlink())
DeleteOutput(t) ==
    /\ Quiescent
    /\ t \in Reach
    /\ kind = "file"
    /\ disk[t] # Null
    /\ disk' = [disk EXCEPT ![t] = Null]
    /\ UNCHANGED <<graph, state, hashes, datums, coord, resources, rep, subm,
                   pc, loopv, wpc, outcome, launched, lastSet, call, seen,
                   dlist, demoted>>

\* the source of the function of t is edited: FunctionTask._quickhash()
\* computes another value from now on
EditBody(t) ==
    /\ Quiescent
    /\ t \in Reach
    /\ Cardinality({u \in Tasks : source[u] # 0}) < MaxEdits
    /\ source[t] = 0
    /\ source' = [source EXCEPT ![t] = 1]
    /\ UNCHANGED <<graph, state, quickhash, datums, disk, coord, resources,
                   rep, subm, pc, loopv, wpc, outcome, launched, lastSet, call,
                   seen, dlist, demoted>>

Coordinator ==
    \/ RunStart
    \/ Choose
    \/ LaunchTask
    \/ LaunchDone
    \/ Return
    \/ Poll
    \/ WrapupTask
    \/ UpdateReadyTasks
    \/ Interrupt

Worker ==
    \E t \in Tasks :
        \/ WorkerStart(t)
        \/ WorkerWrite(t)
        \/ WorkerSucceed(t)
        \/ WorkerFail(t)
        \/ WorkerInterrupted(t)

Next == Coordinator \/ Worker

Spec == Init /\ [][Next]_vars

TypeOK ==
    /\ state \in [Tasks -> TaskState]
    /\ dstate \in [Tasks -> DatumState]
    /\ rep \in [Tasks -> TaskState \cup {None}]
    /\ seen \in [Tasks -> TaskState \cup {None}]
    /\ call.id \in Tasks
    /\ dlist.built \in BOOLEAN /\ dlist.state \in DatumState
    /\ demoted \subseteq Tasks
    /\ waiting \subseteq Tasks /\ complete \subseteq Tasks
    /\ failed \subseteq Tasks
    /\ Range(ready) \subseteq Tasks /\ Range(running) \subseteq Tasks

\* ------------------------------------------------------------- warm runs
\* run() again and again on a workflow whose bodies succeed and that nobody
\* interrupts, with the caller deleting outputs and editing bodies between
\* two runs.
NextWarm ==
    \/ RunStart
    \/ Choose
    \/ LaunchTask
    \/ LaunchDone
    \/ Return
    \/ Poll
    \/ WrapupTask
    \/ UpdateReadyTasks
    \/ \E t \in Tasks : WorkerStart(t)
    \/ \E t \in Tasks : WorkerWrite(t)
    \/ \E t \in Tasks : WorkerSucceed(t)
    \/ \E t \in Tasks : DeleteOutput(t)
    \/ \E t \in Tasks : EditBody(t)

\* the workflows of Init whose tasks all demand one cpu
InitWarm == Init /\ \A t \in Reach : demand[t] = [k \in {"cpu"} |-> 1]

SpecWarm == InitWarm /\ [][NextWarm]_vars

\* ------------------------------------------ assignments to the state flags
\* The setters on their own: from the constructed tasks and Datums, any
\* sequence of assignments task.state = s and datum.state = s.
InitSetter ==
    /\ deps = [t \in Tasks |-> {}]
    /\ demand = [t \in Tasks |-> IF t = EndTask THEN [k \in {"cpu"} |-> 1]
                                 ELSE EmptyDemand]
    /\ kind \in {"memory", "file"}
    /\ state = [t \in Tasks |-> WAITING]
    /\ quickhash = [t \in Tasks |-> 0]
    /\ source = [t \in Tasks |-> 0]
    /\ dstate = [t \in Tasks |-> IF kind = "memory" THEN EMPTY ELSE POPULATED]
    /\ pointer = [t \in Tasks |-> IF kind = "memory" THEN Null ELSE Path]
    /\ dhash = [t \in Tasks |-> Null]
    /\ disk = [t \in Tasks |-> Null]
    /\ waiting = {} /\ ready = <<>> /\ running = <<>>
    /\ complete = {} /\ failed = {}
    /\ resources = InitialBudget
    /\ rep = [t \in Tasks |-> None]
    /\ subm = {}
    /\ pc = "setter"
    /\ chosen = <<>> /\ finished = <<>> /\ todo = <<>>
    /\ wpc = [t \in Tasks |-> "none"]
    /\ outcome = [t \in Tasks |-> "none"]
    /\ launched = {}
    /\ lastSet = NoSet
    /\ call = NoCall
    /\ seen = [t \in Tasks |-> None]
    /\ dlist = NoList
    /\ demoted = {}

\* task.state = s
AssignTaskState(t, s) ==
    /\ pc = "setter"
    /\ state' = [state EXCEPT ![t] = TaskSetter(state[t], s).state]
    /\ lastSet' = [obj |-> "task", id |-> t, from |-> state[t], to |-> s,
                   ok |-> TaskSetter(state[t], s).ok]
    /\ UNCHANGED <<graph, hashes, datums, disk, coord, resources, rep, subm,
                   pc, loopv, wpc, outcome, launched, call, seen, dlist,
                   demoted>>

\* datum.state = s
AssignDatumState(t, s) ==
    /\ pc = "setter"
    /\ dstate' = [dstate EXCEPT ![t] = DatumSetter(dstate[t], s).state]
    /\ lastSet' = [obj |-> "datum", id |-> t, from |-> dstate[t], to |-> s,
                   ok |-> DatumSetter(dstate[t], s).ok]
    /\ UNCHANGED <<graph, state, hashes, pointer, dhash, disk, coord,
                   resources, rep, subm, pc, loopv, wpc, outcome, launched,
                   call, seen, dlist, demoted>>

\* on the end task and on its output Datum
NextSetter ==
    \/ \E s \in TaskState : AssignTaskState(EndTask, s)
    \/ \E s \in DatumState : AssignDatumState(EndTask, s)

SpecSetter == InitSetter /\ [][NextSetter]_vars

\* the elements of a set of tasks as a list
RECURSIVE AsList(_)
AsList(S) ==
    IF S = {} THEN <<>>
    ELSE LET m == CHOOSE x \in S : \A y \in S : x <= y
         IN <<m>> \o AsList(S \ {m})

\* ------------------------------------------------- Task methods, inline
\* The methods of a Task called by the caller itself, in the caller's
\* process and on the caller's objects (communicator: DefaultCommunicator).
\* An object graph is a record of the fields of all Tasks and output
\* Datums, with ok = FALSE once an exception is on its way out and hooks
\* the number of calls of a Datum's _clear_logic() so far.
Objects ==
    [state |-> state, dstate |-> dstate, pointer |-> pointer,
     dhash |-> dhash, disk |-> disk, quickhash |-> quickhash,
     visited |-> {}, ok |-> TRUE, hooks |-> 0]

\* a clear() that runs the hook and keeps the stored quickhash
datum_clear_keeping_hash(acc, t) ==
    IF acc.dstate[t] = EMPTY THEN acc
    ELSE [acc EXCEPT !.disk[t] = Null,
                     !.hooks = @ + 1,
                     !.dstate[t] = DatumSetter(@, POPULATED).state]

\* AbstractDatum.clear() on the output Datum of t
datum_clear(acc, t) ==
    IF acc.dstate[t] = EMPTY THEN acc
    ELSE [acc EXCEPT !.disk[t] = Null,
                     !.hooks = @ + 1,
                     !.dstate[t] = DatumSetter(@, POPULATED).state,
                     !.dhash[t] = Null]

\* AbstractDatum.sync() that keeps the data of a stale Datum
datum_sync_keeping_stale(acc, t) ==
    IF ~validate_format_logic(kind, acc.pointer[t])
    THEN [acc EXCEPT !.pointer[t] = Null,
                     !.dstate[t] = DatumSetter(@, EMPTY).state]
    ELSE IF verify_available_logic(kind, acc.pointer[t], acc.disk[t])
    THEN LET r == DatumSetter(acc.dstate[t], AVAILABLE)
         IN [acc EXCEPT !.dstate[t] = r.state, !.ok = r.ok,
                        !.dhash[t] = DatumFingerprint(kind, acc.pointer[t],
                                                      acc.disk[t])]
    ELSE [acc EXCEPT !.dstate[t] = DatumSetter(@, POPULATED).state]

\* AbstractDatum.sync() on the output Datum of t
datum_sync(acc, t) ==
    IF ~validate_format_logic(kind, acc.pointer[t])
    THEN [acc EXCEPT !.pointer[t] = Null,
                     !.dstate[t] = DatumSetter(@, EMPTY).state]
    ELSE IF verify_available_logic(kind, acc.pointer[t], acc.disk[t])
    THEN LET new_hash == DatumFingerprint(kind, acc.pointer[t], acc.disk[t])
         IN IF new_hash = acc.dhash[t]
            THEN LET r == DatumSetter(acc.dstate[t], AVAILABLE)
                 IN [acc EXCEPT !.dstate[t] = r.state, !.ok = r.ok]
            ELSE \* _verify_quickhash(update=True) stored the new hash
                 datum_clear([acc EXCEPT !.dhash[t] = new_hash], t)
    ELSE [acc EXCEPT !.dstate[t] = DatumSetter(@, POPULATED).state]

\* `for datum in ...: datum.sync()` over the outputs of the tasks of ds
RECURSIVE sync_datums(_, _)
sync_datums(acc, ds) ==
    IF ds = <<>> \/ ~acc.ok THEN acc
    ELSE sync_datums(datum_sync(acc, Head(ds)), Tail(ds))

\* the end of AbstractTask.sync that does not look at the dependencies
set_state_ignoring_deps(acc, t, io_available) ==
    IF acc.state[t] = FAILED THEN update_state(acc, t, FAILED)
    ELSE IF io_available /\ acc.quickhash[t] = source[t]
    THEN update_state(acc, t, COMPLETE)
    ELSE IF io_available
    THEN update_state([acc EXCEPT !.quickhash[t] = source[t]], t, WAITING)
    ELSE update_state(acc, t, WAITING)

\* the end of AbstractTask.sync: `Set this task's state`, with
\* _verify_quickhash(update=True) evaluated only when the rest holds
set_state(acc, t, io_available) ==
    LET cmpl == io_available
                /\ \A d \in deps[t] : acc.state[d] = COMPLETE
    IN IF acc.state[t] = FAILED THEN update_state(acc, t, FAILED)
       ELSE IF cmpl /\ acc.quickhash[t] = source[t]
       THEN update_state(acc, t, COMPLETE)
       ELSE IF cmpl
       THEN update_state([acc EXCEPT !.quickhash[t] = source[t]], t, WAITING)
       ELSE update_state(acc, t, WAITING)

\* AbstractTask.sync(recursive=True, visited)
RECURSIVE sync(_, _)
RECURSIVE sync_deps(_, _)
sync_deps(acc, ds) ==
    IF ds = <<>> \/ ~acc.ok THEN acc
    ELSE sync_deps(IF Head(ds) \in acc.visited THEN acc
                   ELSE sync(acc, Head(ds)),
                   Tail(ds))

sync(acc, t) ==
    LET a1 == sync_datums(acc, AsList(deps[t]))
        inputs_available == \A d \in deps[t] : a1.dstate[d] = AVAILABLE
        a2 == sync_datums(a1, <<t>>)
        outputs_available == a2.dstate[t] = AVAILABLE
        a3 == sync_deps(a2, AsList(deps[t]))
        a4 == set_state(a3, t, inputs_available /\ outputs_available)
    IN IF ~a3.ok THEN a3
       ELSE [a4 EXCEPT !.visited = @ \cup {t}]

\* AbstractTask.is_ready that only minds a failed dependency
is_ready_unless_failed(acc, t) == \A d \in deps[t] : acc.state[d] # FAILED

\* AbstractTask.is_ready
is_ready(acc, t) == \A d \in deps[t] : acc.state[d] = COMPLETE

\* what the body of t leaves in its output Datum: MemoryDatum.populate(v)
\* or the file written at the output path
write_output(acc, t) ==
    IF kind = "memory"
    THEN [acc EXCEPT !.pointer[t] = Body(t),
                     !.dstate[t] = DatumSetter(@, POPULATED).state]
    ELSE [acc EXCEPT !.disk[t] = Body(t)]

\* AbstractTask._verify_outputs
verify_outputs(acc, t) ==
    LET v == verify_available(kind, acc.dstate[t], acc.pointer[t],
                              acc.dhash[t], acc.disk[t])
    IN [ret |-> v.ret,
        acc |-> [acc EXCEPT !.dstate[t] = v.dstate, !.dhash[t] = v.dhash]]

\* AbstractTask.fail that leaves the state to the caller
fail_without_state(acc, t, clears) ==
    IF clears THEN datum_clear(acc, t) ELSE acc

\* AbstractTask.fail: update_state(FAILED), then _fail_cleanup(), which
\* clears the outputs (FunctionTask) or does nothing (ScriptTask)
fail(acc, t, clears) ==
    LET a == update_state(acc, t, FAILED)
    IN IF clears THEN datum_clear(a, t) ELSE a

\* an interrupt() that runs the cleanup and leaves the state alone
interrupt_keeping_state(acc, t, clears) ==
    IF clears THEN [acc EXCEPT !.ok = FALSE] ELSE acc

\* AbstractTask.interrupt: update_state(WAITING), then _interrupt_cleanup(),
\* which does nothing (ScriptTask) or raises on unpacking the first key of
\* the outputs dict (FunctionTask)
interrupt(acc, t, clears) ==
    LET a == update_state(acc, t, WAITING)
    IN IF clears THEN [a EXCEPT !.ok = FALSE] ELSE a

\* AbstractTask.run() on task t.  b is what the body does: "ok" (returns
\* with its output written), "missing" (returns without writing), "error"
\* (raises, after writing its output if wrote), "interrupt"
\* (KeyboardInterrupt); clears tells a FunctionTask from a ScriptTask.
run(acc, t, b, wrote, clears) ==
    IF ~is_ready(acc, t)
    THEN [acc |-> acc,
          call |-> [op |-> "run", id |-> t, raised |-> "NotReady",
                    body |-> "none", cleanups |-> 0, arg |-> 0]]
    ELSE LET a0 == update_state(acc, t, RUNNING)
         IN IF ~a0.ok
            THEN [acc |-> acc,
                  call |-> [op |-> "run", id |-> t, raised |-> "ValueError",
                            body |-> "none", cleanups |-> 0, arg |-> 0]]
            ELSE IF b = "interrupt"
            THEN LET a1 == interrupt(a0, t, clears)
                 IN [acc |-> [a1 EXCEPT !.ok = TRUE],
                     call |-> [op |-> "run", id |-> t,
                               raised |-> IF a1.ok THEN "none"
                                          ELSE "ValueError",
                               body |-> b, cleanups |-> 1, arg |-> 0]]
            ELSE LET a1 == IF b = "ok" \/ (b = "error" /\ wrote)
                           THEN write_output(a0, t) ELSE a0
                     v == verify_outputs(a1, t)
                 IN IF b = "error" \/ ~v.ret
                    THEN [acc |-> fail(IF b = "error" THEN a1 ELSE v.acc,
                                       t, clears),
                          call |-> [op |-> "run", id |-> t,
                                    raised |-> IF b = "error" THEN "Exception"
                                               ELSE "RuntimeError",
                                    body |-> b, cleanups |-> 1, arg |-> 0]]
                    ELSE [acc |-> update_state(v.acc, t, COMPLETE),
                          call |-> [op |-> "run", id |-> t, raised |-> "none",
                                    body |-> b, cleanups |-> 0, arg |-> 0]]

\* the tasks as constructed, before any call
InitTask ==
    /\ deps \in [Tasks -> SUBSET Tasks]
    /\ \A t \in Tasks : \A d \in deps[t] : d < t
    \* the caller works on the end task and the tasks it depends on
    /\ Cardinality(Reach) <= MaxActive
    /\ demand = [t \in Tasks |-> EmptyDemand]
    /\ kind \in {"memory", "file"}
    /\ state = [t \in Tasks |-> WAITING]
    /\ quickhash = [t \in Tasks |-> 0]
    /\ source = [t \in Tasks |-> 0]
    /\ dstate = [t \in Tasks |-> IF kind = "memory" THEN EMPTY ELSE POPULATED]
    /\ pointer = [t \in Tasks |-> IF kind = "memory" THEN Null ELSE Path]
    /\ dhash = [t \in Tasks |-> Null]
    /\ disk = [t \in Tasks |-> Null]
    /\ waiting = {} /\ ready = <<>> /\ running = <<>>
    /\ complete = {} /\ failed = {}
    /\ resources = InitialBudget
    /\ rep = [t \in Tasks |-> None]
    /\ subm = {}
    /\ pc = "api"
    /\ chosen = <<>> /\ finished = <<>> /\ todo = <<>>
    /\ wpc = [t \in Tasks |-> "none"]
    /\ outcome = [t \in Tasks |-> "none"]
    /\ launched = {}
    /\ lastSet = NoSet
    /\ call = NoCall
    /\ seen = [t \in Tasks |-> None]
    /\ dlist = NoList
    /\ demoted = {}

\* the fields of the object graph a call leaves behind
Store(a) ==
    /\ state' = a.state
    /\ dstate' = a.dstate
    /\ pointer' = a.pointer
    /\ dhash' = a.dhash
    /\ disk' = a.disk
    /\ quickhash' = a.quickhash

\* the caller calls t.run()
TaskRun(t) ==
    /\ pc = "api"
    /\ t \in Reach
    /\ \E b \in {"ok", "missing", "error", "interrupt"},
          wrote \in BOOLEAN, clears \in BOOLEAN :
          \* a body needs its inputs to return; only a script can return
          \* without having written its output file
          /\ b \in {"ok", "missing"} => \A p \in deps[t] : Seen(p) # Null
          /\ b = "missing" => (kind = "file" /\ ~clears)
          /\ clears \/ kind = "file"
          \* choices that make no difference are made once
          /\ wrote => b = "error"
          /\ b = "ok" => clears
          /\ LET r == run(Objects, t, b, wrote, clears)
             IN /\ Store(r.acc) /\ call' = r.call
                /\ demoted' = IF r.acc.state[t] = COMPLETE
                               THEN demoted \ {t} ELSE demoted
    /\ UNCHANGED <<graph, source, coord, resources, rep, subm, pc, loopv,
                   wpc, outcome, launched, lastSet, seen, dlist>>

\* the caller calls t.sync()
TaskSync(t) ==
    /\ pc = "api"
    /\ t \in Reach
    /\ LET a == sync(Objects, t)
       IN /\ Store(a)
          /\ call' = [op |-> "sync", id |-> t,
                       raised |-> IF a.ok THEN "none" ELSE "ValueError",
                       body |-> "none", cleanups |-> 0, arg |-> 0]
          \* the quickhash is stored on a mismatch only
          /\ demoted' = demoted \cup {u \in Tasks : /\ state[u] = COMPLETE
                                                     /\ a.state[u] = WAITING
                                                     /\ a.quickhash[u]
                                                        # quickhash[u]}
    /\ UNCHANGED <<graph, source, coord, resources, rep, subm, pc, loopv,
                   wpc, outcome, launched, lastSet, seen, dlist>>

\* the caller deletes the file behind the output of t
Unlink(t) ==
    /\ pc = "api"
    /\ t \in Reach
    /\ kind = "file"
    /\ disk[t] # Null
    /\ disk' = [disk EXCEPT ![t] = Null]
    /\ call' = [op |-> "unlink", id |-> t, raised |-> "none",
                 body |-> "none", cleanups |-> 0, arg |-> 0]
    /\ UNCHANGED <<graph, state, hashes, datums, coord, resources, rep, subm,
                   pc, loopv, wpc, outcome, launched, lastSet, seen, dlist,
                   demoted>>

\* the caller edits the body of t
Edit(t) ==
    /\ pc = "api"
    /\ t \in Reach
    /\ Cardinality({u \in Tasks : source[u] # 0}) < MaxEdits
    /\ source[t] = 0
    /\ source' = [source EXCEPT ![t] = 1]
    /\ call' = [op |-> "edit", id |-> t, raised |-> "none",
                 body |-> "none", cleanups |-> 0, arg |-> 0]
    /\ UNCHANGED <<graph, state, quickhash, datums, disk, coord, resources,
                   rep, subm, pc, loopv, wpc, outcome, launched, lastSet, seen,
                   dlist, demoted>>

NextTask ==
    \E t \in Tasks :
        \/ TaskRun(t)
        \/ TaskSync(t)
        \/ Unlink(t)
        \/ Edit(t)

SpecTask == InitTask /\ [][NextTask]_vars

\* ------------------------------------------- assessment after inline calls
\* Tasks are run inline, some fail, outputs are deleted and bodies edited;
\* then a manager is built over the tasks and
\* initialize_workflow_state(verify_tasks) is called, as the tests do.
InitAssess ==
    /\ deps \in [Tasks -> SUBSET Tasks]
    /\ \A t \in Tasks : \A d \in deps[t] : d < t
    \* the manager is built over the end task and the tasks it depends on
    /\ Cardinality(Reach) <= MaxChain
    /\ demand = [t \in Tasks |-> EmptyDemand]
    /\ kind = "file"
    /\ state = [t \in Tasks |-> WAITING]
    /\ quickhash = [t \in Tasks |-> 0]
    /\ source = [t \in Tasks |-> 0]
    /\ dstate = [t \in Tasks |-> POPULATED]
    /\ pointer = [t \in Tasks |-> Path]
    /\ dhash = [t \in Tasks |-> Null]
    /\ disk = [t \in Tasks |-> Null]
    /\ waiting = {} /\ ready = <<>> /\ running = <<>>
    /\ complete = {} /\ failed = {}
    /\ resources = InitialBudget
    /\ rep = [t \in Tasks |-> None]
    /\ subm = {}
    /\ pc = "api"
    /\ chosen = <<>> /\ finished = <<>> /\ todo = <<>>
    /\ wpc = [t \in Tasks |-> "none"]
    /\ outcome = [t \in Tasks |-> "none"]
    /\ launched = {}
    /\ lastSet = NoSet
    /\ call = NoCall
    /\ seen = [t \in Tasks |-> None]
    /\ dlist = NoList
    /\ demoted = {}

\* m.initialize_workflow_state(verify_tasks)
Assess ==
    /\ pc = "api"
    /\ \E verify_tasks \in BOOLEAN :
          LET a == initialize_workflow_state(verify_tasks)
          IN /\ a.ok
             /\ waiting' = a.waiting
             /\ ready' = a.ready
             /\ running' = <<>>
             /\ complete' = a.complete
             /\ failed' = a.failed
             /\ state' = a.state
             /\ dstate' = a.dstate
             /\ dhash' = a.dhash
             /\ quickhash' = a.quickhash
             /\ call' = [NoCall EXCEPT !.op = "initialize", !.id = EndTask,
                                       !.arg = IF verify_tasks THEN 1 ELSE 0]
    /\ pc' = "assessed"
    /\ UNCHANGED <<graph, source, pointer, disk, resources, rep, subm, loopv,
                   wpc, outcome, launched, lastSet, seen, dlist, demoted>>

NextAssess ==
    \/ \E t \in Tasks : TaskRun(t)
    \/ \E t \in Tasks : Unlink(t)
    \/ \E t \in Tasks : Edit(t)
    \/ Assess

SpecAssess == InitAssess /\ [][NextAssess]_vars

\* ------------------------------------------------------- Datum methods
\* The methods of AbstractDatum, called by a caller on one Datum object: the
\* output Datum of the end task, of either variant.
\* a pointer that is not a path (FileDatum(pointer=123) in the tests)
NotAPath == -2

\* the pointers a caller populates a Datum with: any value, None included,
\* for a MemoryDatum; a path or something else for a FileDatum
Pointers ==
    IF kind = "memory" THEN {Null} \cup (1 .. MaxVersion) ELSE {Path, NotAPath}

\* a populate() that does not validate the pointer
datum_populate_unvalidated(acc, t, p) ==
    [acc EXCEPT !.pointer[t] = p,
                !.dstate[t] = DatumSetter(@, POPULATED).state]

\* AbstractDatum.populate(p) with _validate_format()
datum_populate(acc, t, p) ==
    LET r == DatumSetter(acc.dstate[t], POPULATED)
    IN IF ~r.ok THEN [acc EXCEPT !.pointer[t] = p, !.ok = FALSE]
       ELSE IF validate_format_logic(kind, p)
       THEN [acc EXCEPT !.pointer[t] = p, !.dstate[t] = r.state]
       ELSE [acc EXCEPT !.pointer[t] = Null,
                        !.dstate[t] = DatumSetter(r.state, EMPTY).state,
                        !.ok = FALSE]

\* AbstractDatum.verify_available(update)
datum_verify_available(acc, t, update) ==
    LET v == verify_available(kind, acc.dstate[t], acc.pointer[t],
                              acc.dhash[t], acc.disk[t])
    IN [ret |-> v.ret,
        acc |-> IF update
                THEN [acc EXCEPT !.dstate[t] = v.dstate, !.dhash[t] = v.dhash]
                ELSE acc]

\* a Datum as its constructor leaves it when no pointer is given
InitDatum ==
    /\ deps = [t \in Tasks |-> {}]
    /\ demand = [t \in Tasks |-> EmptyDemand]
    /\ kind \in {"memory", "file"}
    /\ state = [t \in Tasks |-> WAITING]
    /\ quickhash = [t \in Tasks |-> 0]
    /\ source = [t \in Tasks |-> 0]
    /\ dstate = [t \in Tasks |-> EMPTY]
    /\ pointer = [t \in Tasks |-> Null]
    /\ dhash = [t \in Tasks |-> Null]
    /\ disk = [t \in Tasks |-> Null]
    /\ waiting = {} /\ ready = <<>> /\ running = <<>>
    /\ complete = {} /\ failed = {}
    /\ resources = InitialBudget
    /\ rep = [t \in Tasks |-> None]
    /\ subm = {}
    /\ pc = "datum"
    /\ chosen = <<>> /\ finished = <<>> /\ todo = <<>>
    /\ wpc = [t \in Tasks |-> "none"]
    /\ outcome = [t \in Tasks |-> "none"]
    /\ launched = {}
    /\ lastSet = NoSet
    /\ call = NoCall
    /\ seen = [t \in Tasks |-> None]
    /\ dlist = NoList
    /\ demoted = {}

\* what a call on the Datum leaves in call
DatumCall(o, a, p) ==
    [op |-> o, id |-> EndTask,
     raised |-> IF a.ok THEN "none" ELSE "ValueError",
     body |-> "none", cleanups |-> a.hooks, arg |-> p]

\* the caller calls populate(p)
DatumPopulate ==
    /\ pc = "datum"
    /\ \E p \in Pointers :
          LET a == datum_populate(Objects, EndTask, p)
          IN Store(a) /\ call' = DatumCall("populate", a, p)
    /\ UNCHANGED <<graph, source, coord, resources, rep, subm, pc, loopv, wpc,
                   outcome, launched, lastSet, seen, dlist, demoted>>

\* the caller calls verify_available(update)
DatumVerifyAvailable ==
    /\ pc = "datum"
    /\ \E update \in BOOLEAN :
          LET v == datum_verify_available(Objects, EndTask, update)
          IN Store(v.acc) /\ call' = DatumCall("verify_available", v.acc, 0)
    /\ UNCHANGED <<graph, source, coord, resources, rep, subm, pc, loopv, wpc,
                   outcome, launched, lastSet, seen, dlist, demoted>>

\* the caller calls clear()
DatumClear ==
    /\ pc = "datum"
    /\ LET a == datum_clear(Objects, EndTask)
       IN Store(a) /\ call' = DatumCall("clear", a, 0)
    /\ UNCHANGED <<graph, source, coord, resources, rep, subm, pc, loopv, wpc,
                   outcome, launched, lastSet, seen, dlist, demoted>>

\* the caller calls sync()
DatumSync ==
    /\ pc = "datum"
    /\ LET a == datum_sync(Objects, EndTask)
       IN Store(a) /\ call' = DatumCall("sync", a, 0)
    /\ UNCHANGED <<graph, source, coord, resources, rep, subm, pc, loopv, wpc,
                   outcome, launched, lastSet, seen, dlist, demoted>>

\* somebody writes the file at the path, with content v
FileWrite ==
    /\ pc = "datum"
    /\ kind = "file"
    /\ \E v \in 1 .. MaxVersion :
          /\ v # disk[EndTask]
          /\ disk' = [disk EXCEPT ![EndTask] = v]
          /\ call' = [NoCall EXCEPT !.op = "write", !.id = EndTask, !.arg = v]
    /\ UNCHANGED <<graph, state, hashes, datums, coord, resources, rep, subm,
                   pc, loopv, wpc, outcome, launched, lastSet, seen, dlist,
                   demoted>>

\* somebody deletes the file at the path
FileUnlink ==
    /\ pc = "datum"
    /\ kind = "file"
    /\ disk[EndTask] # Null
    /\ disk' = [disk EXCEPT ![EndTask] = Null]
    /\ call' = [NoCall EXCEPT !.op = "unlink", !.id = EndTask]
    /\ UNCHANGED <<graph, state, hashes, datums, coord, resources, rep, subm,
                   pc, loopv, wpc, outcome, launched, lastSet, seen, dlist,
                   demoted>>

NextDatum ==
    \/ DatumPopulate
    \/ DatumVerifyAvailable
    \/ DatumClear
    \/ DatumSync
    \/ FileWrite
    \/ FileUnlink

SpecDatum == InitDatum /\ [][NextDatum]_vars

\* -------------------------------------------------------------- DatumList
\* A DatumList of one variant over the first MaxList Datums, and the
\* methods a caller calls on the list.  The list keeps its own state and
\* quickhash (dlist); its pointer is the list of the elements' pointers.
Elems == 0 .. (MaxList - 1)

\* DatumList._quickhash: the hash of the tuple of the elements' fingerprints
ListFingerprint(acc) ==
    [i \in 1 .. MaxList |->
        DatumFingerprint(kind, acc.pointer[i - 1], acc.disk[i - 1])]

\* `for d, p in zip(self.datum_list, pointer): d.populate(p)`; the first
\* pointer that is not well formed ends the loop with its ValueError
RECURSIVE populate_elements(_, _, _)
populate_elements(acc, es, ptrs) ==
    IF es = <<>> \/ ~acc.ok THEN acc
    ELSE populate_elements(datum_populate(acc, Head(es), ptrs[Head(es)]),
                           Tail(es), ptrs)

\* `self.datum_list.append(self.datum_type(pointer=p))`: a new element is
\* constructed EMPTY, populated and verified
RECURSIVE construct_elements(_, _, _)
construct_elements(acc, es, ptrs) ==
    IF es = <<>> \/ ~acc.ok THEN acc
    ELSE LET e == Head(es)
             fresh == [acc EXCEPT !.dstate[e] = EMPTY, !.pointer[e] = Null,
                                  !.dhash[e] = Null]
             a1 == datum_populate(fresh, e, ptrs[e])
             a2 == IF a1.ok THEN datum_verify_available(a1, e, TRUE).acc
                   ELSE a1
         IN construct_elements(a2, Tail(es), ptrs)

\* `for d in self.datum_list: available &= d.verify_available(update)`
RECURSIVE verify_elements(_, _, _)
verify_elements(acc, es, update) ==
    IF es = <<>> THEN [ret |-> TRUE, acc |-> acc]
    ELSE LET v == datum_verify_available(acc, Head(es), update)
             rest == verify_elements(v.acc, Tail(es), update)
         IN [ret |-> v.ret /\ rest.ret, acc |-> rest.acc]

\* DatumList._clear_logic: the _clear_logic() of every element
clear_elements(acc) ==
    [acc EXCEPT !.disk = [t \in Tasks |-> IF t \in Elems THEN Null ELSE @[t]],
                !.hooks = @ + 1]

\* AbstractDatum.clear() on the list
list_clear(acc, l) ==
    IF l.state = EMPTY THEN [acc |-> acc, list |-> l]
    ELSE [acc |-> clear_elements(acc),
          list |-> [l EXCEPT !.state = DatumSetter(@, POPULATED).state,
                             !.quickhash = NoHash]]

\* DatumList.populate(pointer)
list_populate(acc, l, ptrs) ==
    LET a == IF l.built THEN populate_elements(acc, AsList(Elems), ptrs)
             ELSE construct_elements(acc, AsList(Elems), ptrs)
    IN [acc |-> a,
        list |-> IF a.ok
                 THEN [l EXCEPT !.built = TRUE,
                                !.state = DatumSetter(@, POPULATED).state]
                 ELSE l]

\* DatumList.verify_available(update)
list_verify_available(acc, l, update) ==
    LET v == verify_elements(acc, AsList(Elems), update)
    IN [acc |-> v.acc,
        list |-> IF l.state # EMPTY /\ v.ret /\ update
                 THEN [l EXCEPT !.state = DatumSetter(@, AVAILABLE).state,
                                !.quickhash = ListFingerprint(v.acc)]
                 ELSE l]

\* AbstractDatum.sync() on the list, with the hooks of DatumList
list_sync(acc, l) ==
    IF \E e \in Elems : ~validate_format_logic(kind, acc.pointer[e])
    THEN [acc |-> acc,
          list |-> [l EXCEPT !.state = DatumSetter(@, EMPTY).state]]
    ELSE IF \A e \in Elems :
               verify_available_logic(kind, acc.pointer[e], acc.disk[e])
    THEN IF ListFingerprint(acc) = l.quickhash
         THEN LET r == DatumSetter(l.state, AVAILABLE)
              IN [acc |-> [acc EXCEPT !.ok = r.ok],
                  list |-> [l EXCEPT !.state = r.state]]
         ELSE list_clear(acc, [l EXCEPT !.quickhash = ListFingerprint(acc)])
    ELSE [acc |-> acc,
          list |-> [l EXCEPT !.state = DatumSetter(@, POPULATED).state]]

\* what a call on the list leaves in call
ListCall(o, a) ==
    [op |-> o, id |-> 0, raised |-> IF a.ok THEN "none" ELSE "ValueError",
     body |-> "none", cleanups |-> a.hooks, arg |-> 0]

\* the caller calls populate(pointers); the first call builds the elements,
\* and is made with well-formed pointers
ListPopulate ==
    /\ pc = "datum"
    /\ \E ptrs \in [Elems -> Pointers] :
          /\ dlist.built
             \/ \A e \in Elems : validate_format_logic(kind, ptrs[e])
          /\ LET r == list_populate(Objects, dlist, ptrs)
             IN /\ Store(r.acc)
                /\ dlist' = r.list
                /\ call' = ListCall("populate", r.acc)
    /\ UNCHANGED <<graph, source, coord, resources, rep, subm, pc, loopv, wpc,
                   outcome, launched, lastSet, seen, demoted>>

\* the caller calls verify_available(update)
ListVerifyAvailable ==
    /\ pc = "datum"
    /\ dlist.built
    /\ \E update \in BOOLEAN :
          LET r == list_verify_available(Objects, dlist, update)
          IN /\ Store(r.acc)
             /\ dlist' = r.list
             /\ call' = ListCall("verify_available", r.acc)
    /\ UNCHANGED <<graph, source, coord, resources, rep, subm, pc, loopv, wpc,
                   outcome, launched, lastSet, seen, demoted>>

\* the caller calls clear()
ListClear ==
    /\ pc = "datum"
    /\ LET r == list_clear(Objects, dlist)
       IN /\ Store(r.acc)
          /\ dlist' = r.list
          /\ call' = ListCall("clear", r.acc)
    /\ UNCHANGED <<graph, source, coord, resources, rep, subm, pc, loopv, wpc,
                   outcome, launched, lastSet, seen, demoted>>

\* the caller calls sync()
ListSync ==
    /\ pc = "datum"
    /\ dlist.built
    /\ LET r == list_sync(Objects, dlist)
       IN /\ Store(r.acc)
          /\ dlist' = r.list
          /\ call' = ListCall("sync", r.acc)
    /\ UNCHANGED <<graph, source, coord, resources, rep, subm, pc, loopv, wpc,
                   outcome, launched, lastSet, seen, demoted>>

\* verify_available() or sync() on a list that has no datum_list yet: the
\* loop over None raises TypeError
ListUnbuilt ==
    /\ pc = "datum"
    /\ ~dlist.built
    /\ \E o \in {"verify_available", "sync"} :
          call' = [NoCall EXCEPT !.op = o, !.raised = "TypeError"]
    /\ UNCHANGED <<graph, state, hashes, datums, disk, coord, resources, rep,
                   subm, pc, loopv, wpc, outcome, launched, lastSet, seen,
                   dlist, demoted>>

\* somebody writes the file at the path of an element
ElementFileWrite(e) ==
    /\ pc = "datum"
    /\ kind = "file"
    /\ e \in Elems
    /\ disk[e] = Null
    /\ disk' = [disk EXCEPT ![e] = 1]
    /\ call' = [NoCall EXCEPT !.op = "write", !.id = e, !.arg = 1]
    /\ UNCHANGED <<graph, state, hashes, datums, coord, resources, rep, subm,
                   pc, loopv, wpc, outcome, launched, lastSet, seen, dlist,
                   demoted>>

NextList ==
    \/ ListPopulate
    \/ ListVerifyAvailable
    \/ ListClear
    \/ ListSync
    \/ ListUnbuilt
    \/ \E e \in Tasks : ElementFileWrite(e)

SpecList == InitDatum /\ [][NextList]_vars

\* -------------------------------------------------------- DAG validation
RECURSIVE rec_cycle_exists(_, _, _)
RECURSIVE cycle_loop(_, _, _)
\* `for d in task.dependencies` of _rec_cycle_exists, with the visited set
\* the calls share
cycle_loop(ds, ancestors, visited) ==
    IF ds = <<>> THEN [found |-> FALSE, visited |-> visited]
    ELSE LET r == rec_cycle_exists(Head(ds), ancestors, visited)
         IN IF r.found THEN r
            ELSE cycle_loop(Tail(ds), ancestors, r.visited)

\* _rec_cycle_exists that takes a task explored before for a cycle
rec_cycle_exists_revisit(task, ancestors, visited) ==
    IF InSeq(task, ancestors) \/ task \in visited
    THEN [found |-> TRUE, visited |-> visited]
    ELSE LET r == cycle_loop(AsList(deps[task]), Append(ancestors, task),
                             visited)
         IN IF r.found THEN r
            ELSE [found |-> FALSE, visited |-> r.visited \cup {task}]

\* helpers._rec_cycle_exists; the ancestors are those of the call, so the
\* pop() on the way back is the return
rec_cycle_exists(task, ancestors, visited) ==
    IF InSeq(task, ancestors)
    THEN [found |-> TRUE, visited |-> visited]
    ELSE IF task \in visited
    THEN [found |-> FALSE, visited |-> visited]
    ELSE LET r == cycle_loop(AsList(deps[task]), Append(ancestors, task),
                             visited)
         IN IF r.found THEN r
            ELSE [found |-> FALSE, visited |-> r.visited \cup {task}]

\* helpers.cycle_exists
cycle_exists(end_task) == rec_cycle_exists(end_task, <<>>, {}).found

\* tasks wired in any way, cycles included (task.dependencies is a plain
\* attribute the caller can assign), before a manager is constructed
InitCycle ==
    /\ deps \in [Tasks -> SUBSET Tasks]
    /\ demand = [t \in Tasks |-> EmptyDemand]
    /\ kind = "memory"
    /\ state = [t \in Tasks |-> WAITING]
    /\ quickhash = [t \in Tasks |-> 0]
    /\ source = [t \in Tasks |-> 0]
    /\ dstate = [t \in Tasks |-> EMPTY]
    /\ pointer = [t \in Tasks |-> Null]
    /\ dhash = [t \in Tasks |-> Null]
    /\ disk = [t \in Tasks |-> Null]
    /\ waiting = {} /\ ready = <<>> /\ running = <<>>
    /\ complete = {} /\ failed = {}
    /\ resources = InitialBudget
    /\ rep = [t \in Tasks |-> None]
    /\ subm = {}
    /\ pc = "construct"
    /\ chosen = <<>> /\ finished = <<>> /\ todo = <<>>
    /\ wpc = [t \in Tasks |-> "none"]
    /\ outcome = [t \in Tasks |-> "none"]
    /\ launched = {}
    /\ lastSet = NoSet
    /\ call = NoCall
    /\ seen = [t \in Tasks |-> None]
    /\ dlist = NoList
    /\ demoted = {}

\* AbstractManager.__init__ up to validate_dag(): ValueError on a cycle
validate_dag ==
    /\ pc = "construct"
    /\ pc' = IF cycle_exists(EndTask) THEN "CyclicDAG" ELSE "validated"
    /\ UNCHANGED <<graph, state, hashes, datums, disk, coord, resources, rep,
                   subm, loopv, wpc, outcome, launched, lastSet, call, seen,
                   dlist, demoted>>

SpecCycle == InitCycle /\ [][validate_dag]_vars

\* ------------------------------------------------------ one run() to its end
\* One call of run() on a fresh manager that nobody interrupts from outside,
\* with the steps of the coordinator and of every worker taken as long as
\* they can be: the coordinator is a sequential program, and the execution
\* of every launched task ends (its body succeeds, raises, or is interrupted
\* inside the worker).
\* the budgets a manager is constructed with: the usual one, and one in
\* which a large task never fits
Budgets == {InitialBudget, [k \in {"cpu", "mem"} |-> Budget - 1]}

InitLive ==
    /\ deps \in [Tasks -> SUBSET Tasks]
    /\ \A t \in Tasks : \A d \in deps[t] : d < t
    /\ demand \in [Tasks -> Demands \cup {EmptyDemand}]
    /\ \A t \in Tasks : demand[t] = EmptyDemand <=> t \notin Reach
    /\ kind \in {"memory", "file"}
    /\ state = [t \in Tasks |-> WAITING]
    /\ quickhash = [t \in Tasks |-> 0]
    /\ source = [t \in Tasks |-> 0]
    /\ dstate = [t \in Tasks |-> IF kind = "memory" THEN EMPTY ELSE POPULATED]
    /\ pointer = [t \in Tasks |-> IF kind = "memory" THEN Null ELSE Path]
    /\ dhash = [t \in Tasks |-> Null]
    /\ disk = [t \in Tasks |-> Null]
    /\ waiting = {} /\ ready = <<>> /\ running = <<>>
    /\ complete = {} /\ failed = {}
    /\ resources \in Budgets
    /\ rep = [t \in Tasks |-> None]
    /\ subm = {}
    /\ pc = "idle"
    /\ chosen = <<>> /\ finished = <<>> /\ todo = <<>>
    /\ wpc = [t \in Tasks |-> "none"]
    /\ outcome = [t \in Tasks |-> "none"]
    /\ launched = {}
    /\ lastSet = NoSet
    /\ call = NoCall
    /\ seen = [t \in Tasks |-> None]
    /\ dlist = NoList
    /\ demoted = {}

\* the one call of run()
RunOnce == pc = "idle" /\ RunStart

\* the steps of the coordinator inside run()
CoordinatorStep ==
    \/ RunOnce
    \/ Choose
    \/ LaunchTask
    \/ LaunchDone
    \/ Return
    \/ Poll
    \/ WrapupTask
    \/ UpdateReadyTasks

\* the steps of the worker that executes the copy of task t
WorkerStep(t) ==
    \/ WorkerStart(t)
    \/ WorkerWrite(t)
    \/ WorkerSucceed(t)
    \/ WorkerFail(t)
    \/ WorkerInterrupted(t)

NextLive == CoordinatorStep \/ \E t \in Tasks : WorkerStep(t)

SpecLive ==
    /\ InitLive
    /\ [][NextLive]_vars
    /\ WF_vars(CoordinatorStep)
    /\ \A t \in Tasks : WF_vars(WorkerStep(t))

\* ================================================================ claims
\* number of the five collections a task is in (with multiplicity in the
\* two lists)
Occurrences(sq, t) == Cardinality({i \in DOMAIN sq : sq[i] = t})

Memberships(t) ==
    (IF t \in waiting THEN 1 ELSE 0) + Occurrences(ready, t)
    + Occurrences(running, t) + (IF t \in complete THEN 1 ELSE 0)
    + (IF t \in failed THEN 1 ELSE 0)

\* what the running tasks hold of resource k
Held(k) ==
    Sum([t \in Tasks |-> IF k \in DOMAIN demand[t] THEN demand[t][k] ELSE 0],
        Range(running))

\* tasks that depend, directly or not, on task f
Descendants(f) == {t \in Tasks : f \in Ancestors(deps, t)}

\* C1: a task is handed to _launch_task (enters running) only in a state
\* where each of its dependencies has state COMPLETE and is in complete.
C1_LaunchAfterDependencies ==
    [][\A t \in Tasks :
          (~InSeq(t, running) /\ InSeq(t, running'))
          => \A d \in deps[t] : state[d] = COMPLETE /\ d \in complete]_vars

C1_Witness ==
    \E t \in Range(running) : deps[t] # {} /\ deps[t] \subseteq complete

C3_ResourceConservation ==
    \A k \in DOMAIN InitialBudget : resources[k] + Held(k) = InitialBudget[k]

\* C4: for every key of the budget, the running tasks never hold more than
\* the initial budget, and the available amount is never negative.
C4_Throttling ==
    \A k \in DOMAIN InitialBudget :
        Held(k) <= InitialBudget[k] /\ resources[k] >= 0

\* a ready task is held back by the budget while another task runs
C4_Witness ==
    /\ pc = "loop"
    /\ running # <<>>
    /\ \E t \in Range(ready) : ~resources_available(resources, demand[t])

\* the value the output Datum of t holds for the coordinator
Holds(t) == IF kind = "memory" THEN pointer[t] ELSE disk[t]

\* C5: when run() returns and the body of every task of the workflow ran
\* and succeeded, every task is COMPLETE, is in complete, and its output
\* Datum holds the value its body computed from its parents' outputs.
C5_AllCompleteWithOutputs ==
    (pc = "done" /\ \A t \in Reach : outcome[t] = "ok")
    => \A t \in Reach :
          state[t] = COMPLETE /\ t \in complete /\ Holds(t) = Expected(t)

\* C6: when a task body raised, run() returns normally; the failing task is
\* FAILED and in failed, the tasks that depend on it are WAITING, in waiting
\* and were never launched, every other task is COMPLETE.
C6_FailureContainment ==
    LET bad == {t \in Reach : outcome[t] = "error"}
        below == UNION {Descendants(f) : f \in bad}
    IN (pc \in {"done", "raised"} /\ Drained /\ bad # {}
            /\ \A t \in Reach : outcome[t] # "interrupt")
       => /\ pc = "done"
          /\ \A f \in bad : state[f] = FAILED /\ f \in failed
          /\ \A t \in (Reach \cap below) \ bad :
                state[t] = WAITING /\ t \in waiting /\ t \notin launched
          /\ \A t \in Reach \ (below \cup bad) : state[t] = COMPLETE

\* C7: an assignment to a Task's state succeeds iff it is a self-transition
\* or one of the seven legal moves; otherwise it raises and the state is
\* unchanged.
LegalTaskMoves ==
    {<<WAITING, RUNNING>>, <<WAITING, COMPLETE>>, <<RUNNING, COMPLETE>>,
     <<RUNNING, FAILED>>, <<RUNNING, WAITING>>, <<COMPLETE, WAITING>>,
     <<FAILED, WAITING>>}

C7_TaskTransitionTable ==
    lastSet.obj = "task"
    => /\ lastSet.ok <=> (lastSet.from = lastSet.to
                          \/ <<lastSet.from, lastSet.to>> \in LegalTaskMoves)
       /\ state[lastSet.id] = IF lastSet.ok THEN lastSet.to ELSE lastSet.from

C7_Witness ==
    /\ lastSet.obj = "task" /\ ~lastSet.ok
    /\ lastSet.from = FAILED /\ lastSet.to = COMPLETE
    /\ state[lastSet.id] = FAILED

\* C8: an assignment to a Datum's state succeeds iff it is a
\* self-transition or one of the five legal moves; otherwise (EMPTY to
\* AVAILABLE) it raises and the state is unchanged.
LegalDatumMoves ==
    {<<EMPTY, POPULATED>>, <<POPULATED, EMPTY>>, <<POPULATED, AVAILABLE>>,
     <<AVAILABLE, POPULATED>>, <<AVAILABLE, EMPTY>>}

C8_DatumTransitionTable ==
    lastSet.obj = "datum"
    => /\ lastSet.ok <=> (lastSet.from = lastSet.to
                          \/ <<lastSet.from, lastSet.to>> \in LegalDatumMoves)
       /\ dstate[lastSet.id] = IF lastSet.ok THEN lastSet.to ELSE lastSet.from

C8_Witness ==
    /\ lastSet.obj = "datum" /\ ~lastSet.ok
    /\ lastSet.from = EMPTY /\ lastSet.to = AVAILABLE
    /\ dstate[lastSet.id] = EMPTY

\* C9: from initialize_workflow_state() on, every COMPLETE task has all its
\* dependencies COMPLETE, its output Datum AVAILABLE for the coordinator,
\* and a stored quickhash equal to its current fingerprint.
C9_CompleteIsBacked ==
    pc \notin {"idle", "setter"}
    => \A t \in Reach :
          state[t] = COMPLETE
          => /\ \A d \in deps[t] : state[d] = COMPLETE
             /\ dstate[t] = AVAILABLE
             /\ quickhash[t] = source[t]

\* C10: the interruption of run() leaves running empty, every task that was
\* running WAITING and in waiting, and the budget equal to the initial
\* budget, and is raised again.
C10_Interrupt ==
    [][(pc # "interrupted" /\ pc' = "interrupted")
       => /\ running' = <<>>
          /\ \A t \in Range(running) : state'[t] = WAITING /\ t \in waiting'
          /\ resources' = InitialBudget]_vars

\* C11: the interruption of run() leaves no output Datum of a task that was
\* running AVAILABLE, and none with backing data still on the file system.
C11_InterruptReclaimsOutputs ==
    [][(pc # "interrupted" /\ pc' = "interrupted")
       => \A t \in Range(running) :
             dstate'[t] # AVAILABLE /\ disk'[t] = Null]_vars

\* the tasks that were running when run() was interrupted: launched in the
\* interrupted run and never wrapped up
Interrupted == launched \ (complete \cup failed)

\* C12: the initial assessment of the run() that follows an interrupted
\* run() classifies no task that was running at the interruption COMPLETE:
\* it is ready or waiting, to be launched again.
C12_InterruptedTasksRunAgain ==
    [][(pc = "interrupted" /\ pc' = "choose")
       => \A t \in Interrupted :
             t \notin complete' /\ state'[t] = WAITING
             /\ (InSeq(t, ready') \/ t \in waiting')]_vars

\* the output of t is missing for the coordinator, or the body of t changed
\* since its quickhash was stored
OwnChange(t) == Holds(t) = Null \/ quickhash[t] # source[t]

\* the tasks with a change of their own or below a task with one
Stale == {t \in Reach : OwnChange(t)
                         \/ \E a \in Ancestors(deps, t) : OwnChange(a)}

RECURSIVE Closure(_)
Closure(S) ==
    LET n == S \cup UNION {deps[x] : x \in S}
    IN IF n = S THEN S ELSE Closure(n)

\* a dependency cycle can be reached from the end task
CycleReachable ==
    \E n \in Closure({EndTask}) : n \in Closure(deps[n])

\* C14: validate_dag() raises if and only if a dependency cycle is
\* reachable from the end task.
C14_CycleRejection ==
    /\ pc = "CyclicDAG" => CycleReachable
    /\ pc = "validated" => ~CycleReachable

\* an accepted graph in which a task is reached along two paths
C14_Witness ==
    /\ pc = "validated"
    /\ \E x, y \in Tasks :
          x # y /\ {x, y} \subseteq deps[EndTask] /\ x \in deps[y]

\* C15: a second sync() of the same task right after a sync() that returned
\* raises no error and leaves every Task state, Datum state and stored
\* quickhash as the first call left them.
C15_SyncIdempotent ==
    [][(call'.op = "sync" /\ call'.raised = "none")
       => LET again == sync(Objects', call'.id)
          IN /\ again.ok
             /\ again.state = state'
             /\ again.dstate = dstate'
             /\ again.dhash = dhash'
             /\ again.quickhash = quickhash']_vars

C17_RetryThroughWaiting ==
    [][(/\ call'.op = "sync" /\ call'.raised = "none"
        /\ state[call'.id] = FAILED
        /\ \A d \in deps[call'.id] : state'[d] = COMPLETE)
       => state'[call'.id] = WAITING]_vars

RunMoves ==
    {<<WAITING, RUNNING>>, <<RUNNING, COMPLETE>>, <<RUNNING, FAILED>>,
     <<RUNNING, WAITING>>}

SampledMoves ==
    RunMoves \cup {<<m[1], n[2]>> : <<m, n>> \in
                      {mn \in RunMoves \X RunMoves : mn[1][2] = mn[2][1]}}

C19_NotReady ==
    [][(call'.op = "run"
        /\ \E d \in deps[call'.id] : state[d] # COMPLETE)
       => /\ call'.raised = "NotReady"
          /\ call'.body = "none"
          /\ state' = state
          /\ <<dstate', pointer', dhash', disk'>>
                = <<dstate, pointer, dhash, disk>>]_vars

C19_Witness ==
    /\ call.op = "run" /\ call.raised = "NotReady"
    /\ \E d \in deps[call.id] : state[d] # COMPLETE
    /\ state[call.id] = WAITING

\* C20: when the body of a ready WAITING task raises an error, or returns
\* with its output missing, run() leaves the task FAILED, has run
\* fail_cleanup once and raises the error to its caller.
C20_FailureInRun ==
    [][(/\ call'.op = "run"
        /\ state[call'.id] = WAITING
        /\ is_ready(Objects, call'.id)
        /\ \/ call'.body = "error"
           \/ call'.body = "missing" /\ disk[call'.id] = Null)
       => /\ state'[call'.id] = FAILED
          /\ call'.cleanups = 1
          /\ call'.raised \in {"Exception", "RuntimeError"}]_vars

\* a body returned without its output and the task is FAILED
C20_Witness ==
    /\ call.op = "run" /\ call.body = "missing"
    /\ call.raised = "RuntimeError"
    /\ state[call.id] = FAILED

\* C21: when the body raises KeyboardInterrupt inside run(), the task ends
\* WAITING, neither COMPLETE nor FAILED, and the interrupt cleanup has been
\* called once.
C21_InterruptInRun ==
    [][(call'.op = "run" /\ call'.body = "interrupt")
       => /\ state'[call'.id] = WAITING
          /\ call'.cleanups = 1
          /\ \A u \in Tasks \ {call'.id} : state'[u] = state[u]]_vars

\* a task with a COMPLETE dependency was interrupted in its body
C21_Witness ==
    /\ call.op = "run" /\ call.body = "interrupt"
    /\ deps[call.id] # {}
    /\ state[call.id] = WAITING

\* C22: a KeyboardInterrupt raised in the body is raised again by run() to
\* its caller.
C22_InterruptPropagates ==
    [][(call'.op = "run" /\ call'.body = "interrupt")
       => call'.raised = "KeyboardInterrupt"]_vars

\* C23: a Datum whose state is EMPTY has a null pointer and a null stored
\* quickhash, whatever calls were made on it.
C23_EmptyDatum ==
    dstate[EndTask] = EMPTY
    => pointer[EndTask] = Null /\ dhash[EndTask] = Null

\* C24: the stored quickhash of a Datum is non-null whenever the Datum is
\* AVAILABLE and null whenever it is POPULATED.
C24_DatumQuickhash ==
    /\ dstate[EndTask] = AVAILABLE => dhash[EndTask] # Null
    /\ dstate[EndTask] = POPULATED => dhash[EndTask] = Null

\* C25: populate(p) on a Datum in any state ends POPULATED with pointer p
\* and raises nothing when p is well formed, and ends EMPTY with a null
\* pointer and raises ValueError when it is not.
C25_Populate ==
    [][(call'.op = "populate")
       => IF kind = "memory" \/ call'.arg = Path
          THEN /\ dstate'[EndTask] = POPULATED
               /\ pointer'[EndTask] = call'.arg
               /\ call'.raised = "none"
          ELSE /\ dstate'[EndTask] = EMPTY
               /\ pointer'[EndTask] = Null
               /\ call'.raised = "ValueError"]_vars

\* populate() rejected a pointer on a Datum that had been AVAILABLE
C25_Witness ==
    /\ call.op = "populate" /\ call.raised = "ValueError"
    /\ dstate[EndTask] = EMPTY
    /\ dhash[EndTask] # Null

\* C26: clear() on an EMPTY Datum changes nothing and does not call the
\* cleanup hook; otherwise it calls the hook once and leaves the Datum
\* POPULATED with a null quickhash and its pointer; a second clear() raises
\* nothing and leaves state, pointer and quickhash as they are.
C26_Clear ==
    [][(call'.op = "clear")
       => /\ call'.raised = "none"
          /\ IF dstate[EndTask] = EMPTY
             THEN /\ call'.cleanups = 0
                  /\ <<dstate', pointer', dhash', disk'>>
                        = <<dstate, pointer, dhash, disk>>
             ELSE /\ call'.cleanups = 1
                  /\ dstate'[EndTask] = POPULATED
                  /\ dhash'[EndTask] = Null
                  /\ pointer' = pointer
          /\ LET again == datum_clear(Objects', EndTask)
             IN /\ again.ok
                /\ <<again.dstate, again.pointer, again.dhash>>
                      = <<dstate', pointer', dhash'>>]_vars

\* clear() deleted the file of a Datum that was AVAILABLE
C26_Witness ==
    /\ call.op = "clear" /\ call.cleanups = 1
    /\ kind = "file"
    /\ dstate[EndTask] = POPULATED /\ pointer[EndTask] = Path
    /\ disk[EndTask] = Null

\* C27: sync() on a Datum in any state: EMPTY with a null pointer when the
\* pointer is not well formed; else POPULATED when the data does not exist;
\* else AVAILABLE with the stored quickhash unchanged when the recomputed
\* fingerprint equals it; else cleared: hook called, POPULATED, quickhash
\* null.
C27_DatumSync ==
    [][(call'.op = "sync" /\ pc = "datum")
       => LET d == EndTask
              valid == validate_format_logic(kind, pointer[d])
              exists == verify_available_logic(kind, pointer[d], disk[d])
              match == DatumFingerprint(kind, pointer[d], disk[d]) = dhash[d]
          IN IF ~valid
             THEN dstate'[d] = EMPTY /\ pointer'[d] = Null
             ELSE IF ~exists
             THEN dstate'[d] = POPULATED
             ELSE IF match
             THEN dstate'[d] = AVAILABLE /\ dhash'[d] = dhash[d]
             ELSE /\ call'.cleanups = 1
                  /\ dstate'[d] = POPULATED
                  /\ dhash'[d] = Null]_vars

\* a dependency of t is in waiting, ready or failed
Blocked(t, w, r, f) == \E d \in deps[t] : d \in w \/ InSeq(d, r) \/ d \in f

\* C28: after initialize_workflow_state(), a reachable task with a
\* dependency in waiting, ready or failed is in waiting and WAITING;
\* otherwise a task that was FAILED is in failed and FAILED; otherwise the
\* task is in complete and COMPLETE if it is verified (its quickhash is
\* unchanged, its inputs' fingerprints are unchanged and its output exists)
\* or, with verify_tasks false, if it was flagged COMPLETE, and else in
\* ready and WAITING.  A task is in one collection only.
C28_Assessment ==
    [][(call'.op = "initialize")
       => \A t \in Reach :
             LET verified ==
                    /\ quickhash[t] = source[t]
                    /\ dstate[t] # EMPTY
                    /\ verify_available_logic(kind, pointer[t], disk[t])
                    /\ \A d \in deps[t] :
                          dhash'[d] = DatumFingerprint(kind, pointer[d],
                                                       disk[d])
                 good == IF call'.arg = 1 THEN verified
                         ELSE state[t] = COMPLETE
                 where == <<t \in waiting', InSeq(t, ready'),
                            t \in complete', t \in failed'>>
             IN IF Blocked(t, waiting', ready', failed')
                THEN where = <<TRUE, FALSE, FALSE, FALSE>>
                     /\ state'[t] = WAITING
                ELSE IF state[t] = FAILED
                THEN where = <<FALSE, FALSE, FALSE, TRUE>>
                     /\ state'[t] = FAILED
                ELSE IF good
                THEN where = <<FALSE, FALSE, TRUE, FALSE>>
                     /\ state'[t] = COMPLETE
                ELSE where = <<FALSE, TRUE, FALSE, FALSE>>
                     /\ state'[t] = WAITING]_vars

\* an assessment found a COMPLETE task, a FAILED task that depends on it and
\* a task below the FAILED one, which it holds in waiting
C28_Witness ==
    /\ call.op = "initialize"
    /\ \E c \in complete, f \in failed, w \in waiting :
          c \in deps[f] /\ f \in deps[w]

\* C29: when the coordinator observes the first failure of a task it
\* interrupts the run: the tasks still running go back to WAITING and to
\* waiting, nothing is left in running, and run() launches nothing more.
C29_HaltOnFailure ==
    [][(pc = "wrapup" /\ todo # <<>> /\ rep[Head(todo)] = FAILED)
       => /\ pc' = "interrupted"
          /\ running' = <<>>
          /\ \A t \in Range(running) \ {Head(todo)} :
                state'[t] = WAITING /\ t \in waiting']_vars

\* C30: whatever populate, verify_available, clear and sync calls were made
\* on a DatumList, the list is AVAILABLE iff every one of its elements is
\* AVAILABLE.
C30_ListAvailable ==
    dlist.built
    => (dlist.state = AVAILABLE <=> \A e \in Elems : dstate[e] = AVAILABLE)

\* C31: an operation on a task leaves the task's input Datums and the data
\* behind them alone: the loop of sync() over the inputs of the task calls
\* no _clear_logic(), and run() (with fail() and interrupt()) changes
\* nothing of the outputs of the task's dependencies.
C31_InputsReadOnly ==
    [][/\ call'.op = "sync"
          => sync_datums(Objects, AsList(deps[call'.id])).hooks = 0
       /\ call'.op = "run"
          => \A d \in deps[call'.id] :
                /\ disk'[d] = disk[d] /\ dstate'[d] = dstate[d]
                /\ pointer'[d] = pointer[d] /\ dhash'[d] = dhash[d]]_vars

\* C32: a turn of the loop of _wrapup_finished_tasks on a finished task sets
\* the coordinator's Task to the state read from the reporter (COMPLETE or
\* FAILED) without an error, adds it to complete or failed, removes its
\* reporter and its submission, restores its resources and removes it from
\* running.
C32_Wrapup ==
    [][(/\ pc = "wrapup" /\ todo # <<>>
        /\ \/ pc' = "raised"
           \/ pc' = "wrapup" /\ todo' = Tail(todo))
       => LET t == Head(todo)
          IN /\ rep[t] \in {COMPLETE, FAILED}
             /\ pc' = "wrapup"
             /\ state'[t] = rep[t]
             /\ rep[t] = COMPLETE => t \in complete'
             /\ rep[t] = FAILED => t \in failed'
             /\ rep'[t] = None
             /\ t \notin subm'
             /\ resources' = increment_resources(resources, demand[t])
             /\ ~InSeq(t, running')]_vars

\* what task t demands of resource k: a key missing from the demand is no
\* demand
Need(t, k) == IF k \in DOMAIN demand[t] THEN demand[t][k] ELSE 0

\* what is left of resource k of the budget res for the i-th task of the
\* list rdy, when the tasks of ch were admitted
Remaining(res, k, rdy, ch, i) ==
    res[k] - Sum([j \in DOMAIN rdy |-> Need(rdy[j], k)],
                 {j \in 1 .. (i - 1) : InSeq(rdy[j], ch)})

\* C33: _choose_tasks goes through the ready list in order and admits a
\* task iff each resource it demands that is a key of the budget is at most
\* what remains after the admissions made earlier in the pass; a task that
\* does not fit is skipped and the later ones are still considered; the
\* pass leaves the budget and the ready list as they are.
C33_GreedySelection ==
    [][(pc = "choose" /\ pc' = "launch")
       => /\ chosen' = SelectSeq(ready, LAMBDA t : InSeq(t, chosen'))
          /\ \A i \in DOMAIN ready :
                InSeq(ready[i], chosen')
                <=> \A k \in DOMAIN demand[ready[i]] :
                       k \in DOMAIN resources
                       => demand[ready[i]][k]
                          <= Remaining(resources, k, ready, chosen', i)
          /\ resources' = resources
          /\ ready' = ready]_vars

\* a pass has just skipped the first ready task, which does not fit, and
\* admitted the second
C33_Witness ==
    /\ pc = "launch"
    /\ Len(ready) = 2
    /\ chosen = <<ready[2]>>
    /\ ~resources_available(resources, demand[ready[1]])

\* C34: sync() on a Datum never assigns a state the Datum transition table
\* forbids: from every state populate, verify_available, clear and earlier
\* sync calls lead to, and whatever the hooks answer, the call returns
\* without the setter's error; a Datum that is EMPTY stays EMPTY.
C34_SyncWithinTable ==
    [][(call'.op = "sync" /\ pc = "datum")
       => /\ call'.raised = "none"
          /\ dstate[EndTask] = EMPTY => dstate'[EndTask] = EMPTY]_vars

\* C35: a task that sync() moved from COMPLETE to WAITING because its
\* recomputed quickhash differed from the stored one is not COMPLETE again
\* before its run() has succeeded, whatever sync() calls are made.
C35_StaleStaysWaiting == \A t \in demoted : state[t] # COMPLETE

\* C36: between the coordinator's steps of run() the collections agree with
\* the state flags of the coordinator's Task objects: a task in running is
\* RUNNING, a task in complete is COMPLETE, a task in failed is FAILED, a
\* task in waiting or in ready is WAITING.
C36_CollectionsAgree ==
    pc \in {"choose", "launch", "loop", "wrapup", "done"}
    => \A t \in Tasks :
          /\ InSeq(t, running) => state[t] = RUNNING
          /\ t \in complete => state[t] = COMPLETE
          /\ t \in failed => state[t] = FAILED
          /\ (t \in waiting \/ InSeq(t, ready)) => state[t] = WAITING

\* C37: during run(), with every running task finishing, every task in
\* ready is eventually launched, whatever the demands and the budget; and
\* run() never returns normally while a task is in ready.
C37_NoStarvation ==
    /\ [](pc = "done" => ready = <<>>)
    /\ \A t \in Tasks : InSeq(t, ready) ~> (t \in launched)

\* C38: when the body of a task starts inside run(), right after the move
\* from WAITING to RUNNING, every input Datum of the task is AVAILABLE in
\* the context that executes it.  The inputs of the worker's copy are the
\* coordinator's Datum objects as they were pickled with the copy.
C38_InputsAvailableAtStart ==
    [][\A t \in Tasks :
          (wpc[t] = "queued" /\ wpc'[t] = "body")
          => \A d \in deps[t] : dstate[d] = AVAILABLE]_vars

\* C39: within one run() a task is launched at most once and promoted from
\* waiting to ready at most once: a task enters running only if it was not
\* launched before in this run; _update_ready_tasks appends to ready only
\* tasks that are in waiting, were not launched and are not in ready, and
\* takes them out of waiting, so that its waiting.remove() never fails.
C39_LaunchedAndPromotedOnce ==
    [][/\ \A t \in Tasks :
             (~InSeq(t, running) /\ InSeq(t, running')) => t \notin launched
       /\ \A t \in Tasks :
             (pc = "wrapup" /\ Occurrences(ready', t) > Occurrences(ready, t))
             => /\ t \in waiting /\ t \notin waiting'
                /\ t \notin launched
                /\ Occurrences(ready', t) = 1
       /\ (pc = "wrapup" /\ todo = <<>>) => pc' # "raised"]_vars

\* a task that waited for its dependencies has been promoted and launched
C39_Witness ==
    \E t \in launched : deps[t] # {} /\ InSeq(t, running) /\ t \notin waiting

\* C40: when the execution of every launched task ends (its body succeeds,
\* raises, or is interrupted inside the worker), run() comes to an end, and
\* every task in running is eventually seen finished, wrapped up and taken
\* out of running.
C40_Termination ==
    /\ <>(pc \in {"done", "raised"})
    /\ \A t \in Tasks : InSeq(t, running) ~> ~InSeq(t, running)

====
